---------------------------- MODULE Spec2Model ----------------------------
(***************************************************************************)
(* A model of the learning platform's server: the route handlers of        *)
(* server/routes (auth, progress, lessons, leaderboard, courses, admin,    *)
(* execute), the Redis cache helpers of server/config/redis.js and the     *)
(* schema of server/config/database.js.                                    *)
(*                                                                         *)
(* A table is a set of rows (records); a SERIAL column is a counter.  A    *)
(* handler is one action: it reads the request (its parameters), runs the  *)
(* statements of the handler in order and leaves the HTTP response in      *)
(* resp.  JavaScript's undefined and the empty string take the same        *)
(* branch of every test the handlers make (!x), and are both written "".   *)
(***************************************************************************)
EXTENDS Integers, Sequences, FiniteSets, TLC

VARIABLES
    users,            \* table users
    userSeq,          \* users.id SERIAL
    user_sessions,    \* table user_sessions
    sessionSeq,       \* user_sessions.id SERIAL
    user_progress,    \* table user_progress
    upSeq,            \* user_progress.id SERIAL
    lesson_progress,  \* table lesson_progress
    lpSeq,            \* lesson_progress.id SERIAL
    daily_activity,   \* table daily_activity
    courses,          \* table courses
    courseSeq,        \* courses.id SERIAL
    lessons,          \* table lessons
    lessonSeq,        \* lessons.id SERIAL
    cache,            \* the Redis keyspace: key -> stored string
    redisClient,      \* config/redis.js redisClient
    redisConnected,   \* config/redis.js redisConnected
    redisFailing,     \* the Redis server answers every command with an error
    today,            \* the current UTC date, as a day number
    tzEast,           \* the server process's local time is ahead of UTC
    pending,          \* the requests being handled between two awaits,
                      \* each with what it has read and where it stands
    sockets,          \* the ids of the connected sockets
    userSocketMap,    \* index.js userSocketMap: socket id -> user id
    activeUsers,      \* the members of the Redis SET 'active_users'
    boot,             \* the call of initDatabase or testConnection
    now,              \* the clock of the code runner, in ms since it started
    calls,            \* the executeCode and executeCommand calls made so far
    tempDir,          \* the paths of the files in TEMP_DIR
    inflight,         \* GET /api/courses requests between their queries and
                      \* their cacheSet, each with the list it read
    lastPut,          \* history: the last successful PUT of a course, numbered
    answered,         \* history: the last GET /api/courses answered: its list
                      \* and the number of the last PUT when it started
    awarded,          \* history: points the lesson handler has credited,
                      \* per <<user id, lesson id>>
    resp,             \* the response of the last request answered
    reqUser,          \* req.user.id of that request (NoUser: none was set)
    nreq              \* number of requests answered

authVars == <<users, userSeq, user_sessions, sessionSeq>>
progressVars == <<user_progress, upSeq, lesson_progress, lpSeq,
                  daily_activity, awarded>>
catalogueVars == <<courses, courseSeq, lessons, lessonSeq>>
courseVars == <<catalogueVars, inflight, lastPut, answered>>
execVars == <<now, calls, tempDir>>
socketVars == <<sockets, userSocketMap, activeUsers>>
\* db.js: the call of initDatabase at start-up
bootVars == <<boot>>
processVars == <<redisClient, redisConnected, redisFailing, tzEast, pending,
                 socketVars, boot, execVars>>

vars == <<users, userSeq, user_sessions, sessionSeq, user_progress, upSeq,
          lesson_progress, lpSeq, daily_activity, courses, courseSeq,
          lessons, lessonSeq, cache, redisClient, redisConnected, redisFailing,
          today, tzEast, pending, sockets, userSocketMap, activeUsers, boot,
          now,
          calls, tempDir, inflight, lastPut, answered, awarded, resp, reqUser,
          nreq>>

----------------------------------------------------------------------------
(* Bounds of the model and the request inputs it enumerates. *)

\* Requests answered in one behaviour.
MaxReq == 3

\* Requests answered in one behaviour of the course and catalogue
\* specifications.
MaxCourseReq == 4

\* executeCode and executeCommand calls made in one behaviour.
MaxCalls == 2

\* Days the clock runs through.
MaxDay == 3

\* undefined (or the empty string) where the handler expects a string
Undefined == ""

\* undefined where the handler expects a number or a boolean; a value v
\* that is present is written <<v>>
undefined == << >>

Usernames == {"alice", "bob"}
Emails == {"alice@x.org", "bob@x.org"}
Passwords == {"pw1", "pw2"}

Topics == {"arrays"}
Percentages == {undefined, <<50>>, <<100>>}
PointsEarned == {undefined, <<5>>, <<-5>>}
CompletedFlags == {undefined, <<TRUE>>}

UserIds == {1, 2}
LessonIds == {1, 2}

CourseIds == {1, 3}
CourseNames == {"Python", "Go Lang"}
Descriptions == {undefined, <<"v1">>}
LessonTitles == {"Intro"}

LeaderboardTypes == {"all", "streak", "points"}
Limits == {100, 1}

\* process.env.ADMIN_EMAIL
ADMIN_EMAIL == "alice@x.org"

\* An HTTP response: the handler that answered, the status, the message or
\* error text of the body, and the rest of the body.
Reply(op, status, body, data) ==
    [op |-> op, status |-> status, body |-> body, data |-> data]

NoResponse == Reply("none", 0, "none", << >>)

NoUser == 0

Max(a, b) == IF a >= b THEN a ELSE b

----------------------------------------------------------------------------
(* config/redis.js.  A key is the sequence of its ':'-separated parts; a   *)
(* KEYS pattern is such a sequence whose last part may be "*".             *)

Null == "null"

\* getRedisClient without the test of redisConnected.
getRedisClient_clientOnly ==
    IF redisClient = Null THEN Null ELSE redisClient

getRedisClient ==
    IF redisClient = Null \/ ~ redisConnected THEN Null ELSE redisClient

JSONstringify(value) == [json |-> value]
JSONparse(data) == data.json

\* client.keys(pattern)
keys(c, pattern) ==
    {k \in DOMAIN c :
        IF pattern[Len(pattern)] = "*"
        THEN /\ Len(k) >= Len(pattern)
             /\ \A i \in 1 .. (Len(pattern) - 1) : k[i] = pattern[i]
        ELSE k = pattern}

\* client.del(keys)
del(c, ks) == [k \in DOMAIN c \ ks |-> c[k]]

\* cacheGet's result: null without a client, when the command fails (the
\* catch) or on a miss (hit is FALSE), else the parsed value
cacheGet(c, key) ==
    IF getRedisClient = Null THEN [hit |-> FALSE]
    ELSE IF redisFailing THEN [hit |-> FALSE]
    ELSE IF key \in DOMAIN c
    THEN [hit |-> TRUE, value |-> JSONparse(c[key])]
    ELSE [hit |-> FALSE]

cacheSet(c, key, value) ==
    IF getRedisClient = Null THEN c
    ELSE IF redisFailing THEN c
    ELSE [k \in DOMAIN c \cup {key} |->
             IF k = key THEN JSONstringify(value) ELSE c[k]]

cacheDelete(c, key) ==
    IF getRedisClient = Null THEN c
    ELSE IF redisFailing THEN c
    ELSE del(c, {key})

cacheDeletePattern(c, pattern) ==
    IF getRedisClient = Null THEN c
    ELSE IF redisFailing THEN c
    ELSE IF keys(c, pattern) # {} THEN del(c, keys(c, pattern)) ELSE c

userKey(userId, part) == <<"user", ToString(userId), part>>

----------------------------------------------------------------------------
(* bcrypt and jsonwebtoken, by what the handlers use of them: a hash that  *)
(* compare() accepts for its own password only; a token that verify()      *)
(* decodes to the userId it was signed for, or rejects.                    *)

bcryptHash(password) == <<"bcrypt", password>>

bcryptCompare(password, hash) == hash = bcryptHash(password)

\* A bearer token: NoToken is "no Authorization header", BadToken a token
\* whose signature does not verify, n > 0 the token signed for {userId: n}.
NoToken == 0
BadToken == -1

jwtSign(userId) == userId

Tokens == {NoToken, BadToken} \cup UserIds

\* middleware/auth.js authenticate: the 401 it answers, or the users row
\* it puts in req.user.
authenticate(token) ==
    IF token = NoToken
    THEN [ok |-> FALSE, status |-> 401, error |-> "Authentication required"]
    ELSE IF token = BadToken
    THEN [ok |-> FALSE, status |-> 401, error |-> "Invalid token"]
    ELSE IF ~ \E u \in users : u.id = token
    THEN [ok |-> FALSE, status |-> 401, error |-> "User not found"]
    ELSE [ok |-> TRUE, user |-> CHOOSE u \in users : u.id = token]

\* middleware/auth.js isAdmin
isAdmin(user) == user.is_admin = TRUE \/ user.email = ADMIN_EMAIL

\* adminGate with router.use(isAdmin) left out.
adminGate_authenticateOnly(token) == authenticate(token)

\* router.use(authenticate); router.use(isAdmin) of the admin router
adminGate(token) ==
    LET auth == authenticate(token) IN
    IF ~ auth.ok THEN auth
    ELSE IF ~ isAdmin(auth.user)
    THEN [ok |-> FALSE, status |-> 403, error |-> "Admin access required"]
    ELSE auth

----------------------------------------------------------------------------
(* Schema defaults of a users row (config/database.js). *)

\* last_activity_date DATE, NULL until the first progress event
NullDate == -1

\* The row SELECT ... WHERE id = $1 returns.
RowOf(us, userId) == CHOOSE u \in us : u.id = userId

NewUser(id, username, email, password_hash) ==
    [id |-> id, username |-> username, email |-> email,
     password_hash |-> password_hash,
     currency |-> 0, total_points |-> 0,
     current_streak |-> 0, longest_streak |-> 0,
     last_activity_date |-> NullDate, is_admin |-> FALSE]

----------------------------------------------------------------------------
(* The auth router (server/routes/codeAnalysis.js). *)

\* existingUser with the username test lost.
existingUser_emailOnly(email, username) ==
    {u \in users : u.email = email}

\* The SELECT of the register handler: rows with this email or username.
existingUser(email, username) ==
    {u \in users : u.email = email \/ u.username = username}

\* POST /api/auth/register
Register(username, email, password) ==
    /\ nreq < MaxReq
    /\ nreq' = nreq + 1
    /\ reqUser' = NoUser
    /\ IF username = Undefined \/ email = Undefined \/ password = Undefined
       THEN /\ resp' = Reply("register", 400, "All fields are required", << >>)
            /\ UNCHANGED authVars
       ELSE IF existingUser(email, username) # {}
       THEN /\ resp' = Reply("register", 400, "User already exists", << >>)
            /\ UNCHANGED authVars
       ELSE IF \E u \in users : u.username = username \/ u.email = email
       THEN \* the INSERT violates UNIQUE (username) or UNIQUE (email)
            /\ userSeq' = userSeq + 1
            /\ resp' = Reply("register", 500, "Internal server error", << >>)
            /\ UNCHANGED <<users, user_sessions, sessionSeq>>
       ELSE /\ userSeq' = userSeq + 1
            /\ users' = users \cup
                 {NewUser(userSeq + 1, username, email, bcryptHash(password))}
            /\ resp' = Reply("register", 201, "User registered successfully", [token |-> jwtSign(userSeq + 1)])
            /\ UNCHANGED <<user_sessions, sessionSeq>>
    /\ UNCHANGED <<progressVars, courseVars, processVars, cache, today>>

\* POST /api/auth/login
Login(username, password) ==
    /\ nreq < MaxReq
    /\ nreq' = nreq + 1
    /\ reqUser' = NoUser
    /\ IF username = Undefined \/ password = Undefined
       THEN /\ resp' = Reply("login", 400, "Username and password are required", << >>)
            /\ UNCHANGED <<authVars, cache>>
       ELSE IF ~ \E u \in users : u.username = username
       THEN /\ resp' = Reply("login", 401, "Invalid credentials", << >>)
            /\ UNCHANGED <<authVars, cache>>
       ELSE LET user == CHOOSE u \in users : u.username = username IN
            IF ~ bcryptCompare(password, user.password_hash)
            THEN /\ resp' = Reply("login", 401, "Invalid credentials", << >>)
                 /\ UNCHANGED <<authVars, cache>>
            ELSE /\ sessionSeq' = sessionSeq + 1
                 /\ user_sessions' = user_sessions \cup
                      {[id |-> sessionSeq + 1, user_id |-> user.id,
                        is_active |-> TRUE, ended |-> FALSE]}
                 /\ cache' = cacheDeletePattern(cache,
                                <<"user", ToString(user.id), "*">>)
                 /\ resp' = Reply("login", 200, "Login successful", [token |-> jwtSign(user.id)])
                 /\ UNCHANGED <<users, userSeq>>
    /\ UNCHANGED <<progressVars, courseVars, processVars, today>>

\* endSessions ending only the latest active session of the user.
endSessions_latestOnly(sessions, userId) ==
    {IF /\ s.user_id = userId
        /\ s.is_active
        /\ \A o \in sessions :
              (o.user_id = userId /\ o.is_active) => o.id <= s.id
     THEN [s EXCEPT !.is_active = FALSE, !.ended = TRUE]
     ELSE s : s \in sessions}

\* UPDATE user_sessions SET session_end = CURRENT_TIMESTAMP,
\* is_active = FALSE WHERE user_id = $1 AND is_active = TRUE
endSessions(sessions, userId) ==
    {IF s.user_id = userId /\ s.is_active
     THEN [s EXCEPT !.is_active = FALSE, !.ended = TRUE]
     ELSE s : s \in sessions}

\* POST /api/auth/logout
Logout(token) ==
    /\ nreq < MaxReq
    /\ nreq' = nreq + 1
    /\ reqUser' = IF authenticate(token).ok THEN authenticate(token).user.id
                  ELSE NoUser
    /\ LET auth == authenticate(token) IN
       IF ~ auth.ok
       THEN /\ resp' = Reply("logout", auth.status, auth.error, << >>)
            /\ UNCHANGED authVars
       ELSE /\ user_sessions' = endSessions(user_sessions, auth.user.id)
            /\ resp' = Reply("logout", 200, "Logged out successfully", << >>)
            /\ UNCHANGED <<users, userSeq, sessionSeq>>
    /\ UNCHANGED <<progressVars, courseVars, processVars, cache, today>>

----------------------------------------------------------------------------
(* The user router (routes/user.js). *)

\* PUT /api/user/profile
PutProfile(token, username) ==
    /\ nreq < MaxReq
    /\ nreq' = nreq + 1
    /\ reqUser' = IF authenticate(token).ok THEN authenticate(token).user.id
                  ELSE NoUser
    /\ LET auth == authenticate(token) IN
       IF ~ auth.ok
       THEN /\ resp' = Reply("profile", auth.status, auth.error, << >>)
            /\ UNCHANGED <<users, cache>>
       ELSE IF /\ username # Undefined
               /\ \E u \in users : u.username = username /\ u.id # auth.user.id
       THEN /\ resp' = Reply("profile", 400, "Username already taken", << >>)
            /\ UNCHANGED <<users, cache>>
       ELSE /\ users' = IF username # Undefined
                        THEN {IF u.id = auth.user.id
                              THEN [u EXCEPT !.username = username]
                              ELSE u : u \in users}
                        ELSE users
            /\ cache' = cacheDelete(cache, userKey(auth.user.id, "profile"))
            /\ resp' = Reply("profile", 200, "Profile updated successfully",
                             [username |-> RowOf(users', auth.user.id).username])
    /\ UNCHANGED <<userSeq, user_sessions, sessionSeq, progressVars,
                   courseVars, processVars, today>>

----------------------------------------------------------------------------
(* Helpers of routes/progress.js and routes/lessons.js.  The two files     *)
(* each define updateStreak and updateDailyActivity.  A date is the day    *)
(* number of a UTC calendar day: the handlers take "today" and "yesterday" *)
(* from toISOString(), which formats in UTC.  A DATE column comes back     *)
(* from pg as a Date at midnight of that day in the process's local time.  *)

\* The UTC day of the Date pg builds for a DATE column: local midnight of
\* day d, which lies in the UTC day before d when local time is ahead of UTC.
pgDate(d) == IF tzEast THEN d - 1 ELSE d

\* new Date(x).toISOString().split('T')[0] of a Date given by its UTC day
toISODate(utcDay) == utcDay

\* const lastActivity = user.last_activity_date ? ... : null
lastActivityOf(user) ==
    IF user.last_activity_date = NullDate THEN NullDate
    ELSE toISODate(pgDate(user.last_activity_date))

\* UPDATE users SET total_points = total_points + $1, with the currency
\* column left out.
addPoints_pointsOnly(us, userId, points) ==
    {IF u.id = userId
     THEN [u EXCEPT !.total_points = @ + points]
     ELSE u : u \in us}

\* UPDATE users SET total_points = total_points + $1, currency = currency + $2
addPoints(us, userId, points) ==
    {IF u.id = userId
     THEN [u EXCEPT !.total_points = @ + points, !.currency = @ + points]
     ELSE u : u \in us}

\* The branch of updateStreak on lastActivity: the new current_streak.
newStreakOf(user, day) ==
    LET lastActivity == lastActivityOf(user)
        yesterday == day - 1
    IN  IF lastActivity # NullDate /\ lastActivity = yesterday
        THEN user.current_streak + 1
        ELSE IF lastActivity = NullDate \/ lastActivity < yesterday
        THEN 1
        ELSE user.current_streak

\* routes/progress.js updateStreak
updateStreak(us, userId, day) ==
    IF ~ \E u \in us : u.id = userId THEN us
    ELSE LET user == RowOf(us, userId) IN
         IF lastActivityOf(user) # NullDate /\ lastActivityOf(user) = day
         THEN us
         ELSE {IF u.id = userId
               THEN [u EXCEPT
                       !.current_streak = newStreakOf(user, day),
                       !.longest_streak =
                           Max(newStreakOf(user, day), user.longest_streak),
                       !.last_activity_date = day]
               ELSE u : u \in us}

\* routes/lessons.js updateStreak
updateStreakLessons(us, userId, day) ==
    IF ~ \E u \in us : u.id = userId THEN us
    ELSE LET user == RowOf(us, userId) IN
         IF lastActivityOf(user) # NullDate /\ lastActivityOf(user) = day
         THEN us
         ELSE {IF u.id = userId
               THEN [u EXCEPT
                       !.current_streak = newStreakOf(user, day),
                       !.longest_streak =
                           Max(newStreakOf(user, day), user.longest_streak),
                       !.last_activity_date = day]
               ELSE u : u \in us}

\* routes/progress.js updateDailyActivity
updateDailyActivity(da, userId, points, topicsCompleted, day) ==
    IF \E r \in da : r.user_id = userId /\ r.activity_date = day
    THEN {IF r.user_id = userId /\ r.activity_date = day
          THEN [r EXCEPT !.points_earned = @ + points,
                         !.topics_completed = @ + topicsCompleted]
          ELSE r : r \in da}
    ELSE da \cup {[user_id |-> userId, activity_date |-> day,
                   points_earned |-> points,
                   topics_completed |-> topicsCompleted]}

\* routes/lessons.js updateDailyActivity
updateDailyActivityLessons(da, userId, points, lessonsCompleted, day) ==
    IF \E r \in da : r.user_id = userId /\ r.activity_date = day
    THEN {IF r.user_id = userId /\ r.activity_date = day
          THEN [r EXCEPT !.points_earned = @ + points,
                         !.topics_completed = @ + lessonsCompleted]
          ELSE r : r \in da}
    ELSE da \cup {[user_id |-> userId, activity_date |-> day,
                   points_earned |-> points,
                   topics_completed |-> lessonsCompleted]}

----------------------------------------------------------------------------
(* routes/progress.js *)

\* const points = points_earned || (isCompleted ? 10 : 0)
pointsOfUpdate(points_earned, isCompleted) ==
    IF points_earned # undefined /\ points_earned[1] # 0
    THEN points_earned[1]
    ELSE IF isCompleted THEN 10 ELSE 0

\* POST /api/progress/update
PostProgressUpdate(token, topic, progress_percentage, points_earned) ==
    /\ nreq < MaxReq
    /\ nreq' = nreq + 1
    /\ reqUser' = IF authenticate(token).ok THEN authenticate(token).user.id
                  ELSE NoUser
    /\ LET auth == authenticate(token) IN
       IF ~ auth.ok
       THEN /\ resp' = Reply("progress/update", auth.status, auth.error, << >>)
            /\ UNCHANGED <<users, user_progress, upSeq, daily_activity, cache>>
       ELSE IF topic = Undefined \/ progress_percentage = undefined
       THEN /\ resp' = Reply("progress/update", 400, "Topic and progress are required", << >>)
            /\ UNCHANGED <<users, user_progress, upSeq, daily_activity, cache>>
       ELSE LET userId == auth.user.id
                existing == {r \in user_progress :
                                r.user_id = userId /\ r.topic = topic}
                isCompleted == progress_percentage = <<100>>
                points == pointsOfUpdate(points_earned, isCompleted)
                credited == IF points > 0
                            THEN addPoints(users, userId, points)
                            ELSE users
            IN  /\ IF existing # {}
                   THEN /\ user_progress' =
                             {IF r \in existing
                              THEN [r EXCEPT
                                     !.progress_percentage =
                                         progress_percentage[1],
                                     !.completed = isCompleted,
                                     !.points_earned = points]
                              ELSE r : r \in user_progress}
                        /\ UNCHANGED upSeq
                   ELSE /\ upSeq' = upSeq + 1
                        /\ user_progress' = user_progress \cup
                             {[id |-> upSeq + 1, user_id |-> userId,
                               topic |-> topic,
                               progress_percentage |-> progress_percentage[1],
                               completed |-> isCompleted,
                               points_earned |-> points]}
                /\ users' = updateStreak(credited, userId, today)
                /\ daily_activity' =
                     updateDailyActivity(daily_activity, userId, points,
                                         IF isCompleted THEN 1 ELSE 0, today)
                /\ cache' = cacheDelete(
                              cacheDelete(cache, userKey(userId, "progress")),
                              userKey(userId, "profile"))
                /\ resp' = Reply("progress/update", 200, "Progress updated successfully", [points_earned |-> points])
    /\ UNCHANGED <<userSeq, user_sessions, sessionSeq, lesson_progress, lpSeq,
                   awarded, courseVars, processVars, today>>

----------------------------------------------------------------------------
(* routes/progress.js, POST /api/progress/update query by query.  The      *)
(* handler awaits each query, and between two of its queries the server    *)
(* may run the queries of another request.  A request being handled is a   *)
(* record of pending: its inputs, the results of its SELECTs, and the      *)
(* query it runs next.                                                     *)

\* Requests of POST /api/progress/update handled in one behaviour.
MaxPending == 2

\* The user field of a request before its updateStreak has selected the row.
NoRow == NewUser(NoUser, Undefined, Undefined, Undefined)

\* pending with request i at its next query and the fields given set.
Advance(i, next, fields) ==
    [pending EXCEPT ![i] =
        [f \in DOMAIN pending[i] |->
            IF f = "pc" THEN next
            ELSE IF f \in DOMAIN fields THEN fields[f]
            ELSE pending[i][f]]]

\* The handler to its first query: authenticate, the validation, and
\* SELECT id, completed FROM user_progress WHERE user_id = $1 AND topic = $2
UpdateBegin(token, topic, progress_percentage, points_earned) ==
    /\ Len(pending) < MaxPending
    /\ LET auth == authenticate(token) IN
       IF ~ auth.ok
       THEN /\ resp' = Reply("progress/update", auth.status, auth.error, << >>)
            /\ reqUser' = NoUser
            /\ nreq' = nreq + 1
            /\ pending' = Append(pending,
                  [userId |-> NoUser, topic |-> topic, pc |-> "done",
                   answer |-> auth.status, progress_percentage |-> 0,
                   isCompleted |-> FALSE, points |-> 0, existing |-> FALSE,
                   user |-> NoRow, day |-> today, dailyExisting |-> FALSE])
       ELSE IF topic = Undefined \/ progress_percentage = undefined
       THEN /\ resp' = Reply("progress/update", 400, "Topic and progress are required", << >>)
            /\ reqUser' = auth.user.id
            /\ nreq' = nreq + 1
            /\ pending' = Append(pending,
                  [userId |-> auth.user.id, topic |-> topic, pc |-> "done",
                   answer |-> 400, progress_percentage |-> 0,
                   isCompleted |-> FALSE, points |-> 0, existing |-> FALSE,
                   user |-> NoRow, day |-> today, dailyExisting |-> FALSE])
       ELSE LET isCompleted == progress_percentage = <<100>> IN
            /\ pending' = Append(pending,
                  [userId |-> auth.user.id, topic |-> topic, pc |-> "write",
                   answer |-> 0,
                   progress_percentage |-> progress_percentage[1],
                   isCompleted |-> isCompleted,
                   points |-> pointsOfUpdate(points_earned, isCompleted),
                   existing |-> \E r \in user_progress :
                                   r.user_id = auth.user.id /\ r.topic = topic,
                   user |-> NoRow, day |-> today, dailyExisting |-> FALSE])
            /\ UNCHANGED <<resp, reqUser, nreq>>
    /\ UNCHANGED <<authVars, progressVars, courseVars, cache, redisClient,
                   redisConnected, redisFailing, tzEast, socketVars, boot, execVars, today>>

\* UPDATE user_progress ... WHERE user_id = $5 AND topic = $6, or
\* INSERT INTO user_progress, by what the SELECT found
UpdateWrite(i) ==
    /\ i \in DOMAIN pending
    /\ pending[i].pc = "write"
    /\ LET req == pending[i] IN
       IF req.existing
       THEN /\ user_progress' =
                 {IF r.user_id = req.userId /\ r.topic = req.topic
                  THEN [r EXCEPT
                         !.progress_percentage = req.progress_percentage,
                         !.completed = req.isCompleted,
                         !.points_earned = req.points]
                  ELSE r : r \in user_progress}
            /\ UNCHANGED upSeq
       ELSE /\ upSeq' = upSeq + 1
            /\ user_progress' = user_progress \cup
                 {[id |-> upSeq + 1, user_id |-> req.userId,
                   topic |-> req.topic,
                   progress_percentage |-> req.progress_percentage,
                   completed |-> req.isCompleted,
                   points_earned |-> req.points]}
    /\ pending' = Advance(i, "credit", << >>)
    /\ UNCHANGED <<authVars, lesson_progress, lpSeq, daily_activity, awarded,
                   courseVars, cache, redisClient, redisConnected,
                   redisFailing, tzEast, socketVars, boot, execVars, today, resp, reqUser, nreq>>

\* if (points > 0) UPDATE users SET total_points = total_points + $1, ...
UpdateCredit(i) ==
    /\ i \in DOMAIN pending
    /\ pending[i].pc = "credit"
    /\ users' = IF pending[i].points > 0
                THEN addPoints(users, pending[i].userId, pending[i].points)
                ELSE users
    /\ pending' = Advance(i, "streakSelect", << >>)
    /\ UNCHANGED <<userSeq, user_sessions, sessionSeq, progressVars,
                   courseVars, cache, redisClient, redisConnected,
                   redisFailing, tzEast, socketVars, boot, execVars, today, resp, reqUser, nreq>>

\* updateStreak to its UPDATE: today, the SELECT of the users row, and the
\* return when lastActivity is today
StreakSelect(i) ==
    /\ i \in DOMAIN pending
    /\ pending[i].pc = "streakSelect"
    /\ LET user == RowOf(users, pending[i].userId) IN
       pending' =
         IF lastActivityOf(user) # NullDate /\ lastActivityOf(user) = today
         THEN Advance(i, "dailySelect", [day |-> today])
         ELSE Advance(i, "streakWrite", [user |-> user, day |-> today])
    /\ UNCHANGED <<authVars, progressVars, courseVars, cache, redisClient,
                   redisConnected, redisFailing, tzEast, socketVars, boot, execVars, today,
                   resp, reqUser, nreq>>

\* UPDATE users SET current_streak = $1, longest_streak = $2,
\* last_activity_date = $3 WHERE id = $4, from the row the SELECT returned
StreakWrite(i) ==
    /\ i \in DOMAIN pending
    /\ pending[i].pc = "streakWrite"
    /\ LET req == pending[i] IN
       users' = {IF u.id = req.userId
                 THEN [u EXCEPT
                         !.current_streak = newStreakOf(req.user, req.day),
                         !.longest_streak =
                             Max(newStreakOf(req.user, req.day),
                                 req.user.longest_streak),
                         !.last_activity_date = req.day]
                 ELSE u : u \in users}
    /\ pending' = Advance(i, "dailySelect", << >>)
    /\ UNCHANGED <<userSeq, user_sessions, sessionSeq, progressVars,
                   courseVars, cache, redisClient, redisConnected,
                   redisFailing, tzEast, socketVars, boot, execVars, today, resp, reqUser, nreq>>

\* updateDailyActivity to its write: today, and
\* SELECT id FROM daily_activity WHERE user_id = $1 AND activity_date = $2
DailySelect(i) ==
    /\ i \in DOMAIN pending
    /\ pending[i].pc = "dailySelect"
    /\ pending' = Advance(i, "dailyWrite",
          [day |-> today,
           dailyExisting |-> \E r \in daily_activity :
               r.user_id = pending[i].userId /\ r.activity_date = today])
    /\ UNCHANGED <<authVars, progressVars, courseVars, cache, redisClient,
                   redisConnected, redisFailing, tzEast, socketVars, boot, execVars, today,
                   resp, reqUser, nreq>>

\* The UPDATE or INSERT of updateDailyActivity, by what its SELECT found; an
\* INSERT that violates UNIQUE(user_id, activity_date) throws, and the catch
\* of updateDailyActivity logs the error.  Then the handler's cacheDeletes
\* and res.json.
DailyWrite(i) ==
    /\ i \in DOMAIN pending
    /\ pending[i].pc = "dailyWrite"
    /\ LET req == pending[i]
           present == \E r \in daily_activity :
                         r.user_id = req.userId /\ r.activity_date = req.day
       IN  /\ daily_activity' =
                IF req.dailyExisting
                THEN {IF r.user_id = req.userId /\ r.activity_date = req.day
                      THEN [r EXCEPT
                              !.points_earned = @ + req.points,
                              !.topics_completed =
                                  @ + (IF req.isCompleted THEN 1 ELSE 0)]
                      ELSE r : r \in daily_activity}
                ELSE IF present THEN daily_activity
                ELSE daily_activity \cup
                       {[user_id |-> req.userId, activity_date |-> req.day,
                         points_earned |-> req.points,
                         topics_completed |->
                             IF req.isCompleted THEN 1 ELSE 0]}
           /\ cache' = cacheDelete(
                         cacheDelete(cache, userKey(req.userId, "progress")),
                         userKey(req.userId, "profile"))
           /\ resp' = Reply("progress/update", 200, "Progress updated successfully", [points_earned |-> req.points])
           /\ reqUser' = req.userId
    /\ nreq' = nreq + 1
    /\ pending' = Advance(i, "done", [answer |-> 200])
    /\ UNCHANGED <<authVars, user_progress, upSeq, lesson_progress, lpSeq,
                   awarded, courseVars, redisClient, redisConnected,
                   redisFailing, tzEast, socketVars, boot, execVars, today>>

----------------------------------------------------------------------------
(* routes/lessons.js *)

\* const isCompleted = completed || progress_percentage === 100
isCompletedOf(completed, progress_percentage) ==
    (completed # undefined /\ completed[1]) \/ progress_percentage = <<100>>

\* POST /api/lessons/:lessonId/progress
PostLessonProgress(token, lessonId, progress_percentage, completed) ==
    /\ nreq < MaxReq
    /\ nreq' = nreq + 1
    /\ reqUser' = IF authenticate(token).ok THEN authenticate(token).user.id
                  ELSE NoUser
    /\ LET auth == authenticate(token) IN
       IF ~ auth.ok
       THEN /\ resp' = Reply("lessons/progress", auth.status, auth.error, << >>)
            /\ UNCHANGED <<users, lesson_progress, lpSeq, daily_activity,
                           awarded, cache>>
       ELSE IF progress_percentage = undefined
       THEN /\ resp' = Reply("lessons/progress", 400, "Progress percentage is required", << >>)
            /\ UNCHANGED <<users, lesson_progress, lpSeq, daily_activity,
                           awarded, cache>>
       ELSE LET userId == auth.user.id
                existing == {r \in lesson_progress :
                                r.user_id = userId /\ r.lesson_id = lessonId}
                isCompleted == isCompletedOf(completed, progress_percentage)
                points == IF isCompleted THEN 10 ELSE 0
                credited == IF points > 0 /\ isCompleted
                            THEN addPoints(users, userId, points)
                            ELSE users
            IN  IF existing = {} /\ ~ \E l \in lessons : l.id = lessonId
                THEN \* the INSERT violates lesson_id REFERENCES lessons(id)
                     /\ lpSeq' = lpSeq + 1
                     /\ resp' = Reply("lessons/progress", 500, "Internal server error", << >>)
                     /\ UNCHANGED <<users, lesson_progress, daily_activity,
                                    awarded, cache>>
                ELSE /\ IF existing # {}
                        THEN /\ lesson_progress' =
                                  {IF r \in existing
                                   THEN [r EXCEPT
                                          !.progress_percentage =
                                              progress_percentage[1],
                                          !.completed = isCompleted,
                                          !.points_earned = points]
                                   ELSE r : r \in lesson_progress}
                             /\ UNCHANGED lpSeq
                        ELSE /\ lpSeq' = lpSeq + 1
                             /\ lesson_progress' = lesson_progress \cup
                                  {[id |-> lpSeq + 1, user_id |-> userId,
                                    lesson_id |-> lessonId,
                                    progress_percentage |->
                                        progress_percentage[1],
                                    completed |-> isCompleted,
                                    points_earned |-> points]}
                     /\ users' = updateStreakLessons(credited, userId, today)
                     /\ awarded' =
                          [awarded EXCEPT ![<<userId, lessonId>>] =
                              @ + (RowOf(credited, userId).total_points
                                   - RowOf(users, userId).total_points)]
                     /\ daily_activity' =
                          updateDailyActivityLessons(daily_activity, userId,
                              points, IF isCompleted THEN 1 ELSE 0, today)
                     /\ cache' = cacheDelete(
                              cacheDelete(cache, userKey(userId, "progress")),
                              userKey(userId, "profile"))
                     /\ resp' = Reply("lessons/progress", 200, "Progress updated successfully", [points_earned |-> points])
    /\ UNCHANGED <<userSeq, user_sessions, sessionSeq, user_progress, upSeq,
                   courseVars, processVars, today>>

----------------------------------------------------------------------------
(* The leaderboard router (server/routes/progress.js). *)

\* The ORDER BY key of the query chosen by type, as a pair compared
\* lexicographically.
orderKey(type, u) ==
    IF type = "streak" THEN <<u.current_streak, u.total_points>>
    ELSE IF type = "points" THEN <<u.total_points, 0>>
    ELSE <<u.total_points + (u.current_streak * 10), 0>>

keyGeq(a, b) == a[1] > b[1] \/ (a[1] = b[1] /\ a[2] >= b[2])

\* The rows the query selects.
selected(type) ==
    IF type = "streak" THEN {u \in users : u.current_streak > 0} ELSE users

\* Every result PostgreSQL may return for SELECT ... ORDER BY ... DESC
\* LIMIT $1: the rows in non-increasing key order, rows with equal keys in
\* any order (the query names no further sort key), cut to limit rows.
queryResults(type, limit) ==
    LET S == selected(type)
        n == Cardinality(S)
        sorted == {q \in [1 .. n -> S] :
                     /\ \A i, j \in 1 .. n : i # j => q[i] # q[j]
                     /\ \A i, j \in 1 .. n :
                          i < j => keyGeq(orderKey(type, q[i]),
                                          orderKey(type, q[j]))}
    IN  {SubSeq(q, 1, IF limit < n THEN limit ELSE n) : q \in sorted}

\* One row of the response: rank, then the selected columns.
entry(type, u, index) ==
    [rank |-> index, id |-> u.id, username |-> u.username,
     score |-> orderKey(type, u)[1],
     total_points |-> u.total_points, current_streak |-> u.current_streak]

\* GET /api/leaderboard
GetLeaderboard(type, limit) ==
    /\ nreq < MaxReq
    /\ nreq' = nreq + 1
    /\ reqUser' = NoUser
    /\ LET cacheKey == <<"leaderboard", type, ToString(limit)>>
           cached == cacheGet(cache, cacheKey)
       IN  IF cached.hit
           THEN /\ resp' = Reply("leaderboard", 200, "cached", cached.value)
                /\ UNCHANGED cache
           ELSE \E rows \in queryResults(type, limit) :
                  LET leaderboard ==
                        [i \in 1 .. Len(rows) |-> entry(type, rows[i], i)]
                  IN  /\ cache' = cacheSet(cache, cacheKey, leaderboard)
                      /\ resp' = Reply("leaderboard", 200, "rows",
                                       [leaderboard |-> leaderboard,
                                        type |-> type])
    /\ UNCHANGED <<authVars, progressVars, courseVars, processVars, today>>

----------------------------------------------------------------------------
(* routes/courses.js *)

\* The names in play in the order ORDER BY c.name puts them.
nameOrder == <<"Go Lang", "Java", "Python">>

\* jwt.verify of the optional bearer token: decoded.userId, or null (NoUser)
decodedUserId(token) ==
    IF token = NoToken \/ token = BadToken THEN NoUser ELSE token

\* COUNT(DISTINCT l.id) of a course's lessons
total_lessons(course) ==
    Cardinality({l \in lessons : l.course_id = course.id})

\* The completed lesson_progress rows of userId joined to the course's lessons
completed_lessons(course, userId) ==
    IF userId = NoUser THEN 0
    ELSE Cardinality({lp \in lesson_progress :
            /\ lp.user_id = userId
            /\ lp.completed
            /\ \E l \in lessons :
                  l.id = lp.lesson_id /\ l.course_id = course.id})

\* The list the handler builds from its queries.
coursesList(userId) ==
    LET present == SelectSeq(nameOrder,
                             LAMBDA n : \E c \in courses : c.name = n)
        row(n) == CHOOSE c \in courses : c.name = n
    IN  [i \in 1 .. Len(present) |->
            [id |-> row(present[i]).id, name |-> row(present[i]).name,
             slug |-> row(present[i]).slug,
             description |-> row(present[i]).description,
             total_lessons |-> total_lessons(row(present[i])),
             completed_lessons |->
                 completed_lessons(row(present[i]), userId)]]

coursesKey == <<"courses", "all">>

\* GET /api/courses up to its last query: answered from the cache on a hit,
\* else the list is read from the database and the request waits to store
\* and send it.
GetCoursesQuery(token) ==
    /\ nreq + Len(inflight) < MaxCourseReq
    /\ LET cached == cacheGet(cache, coursesKey) IN
       IF cached.hit
       THEN /\ nreq' = nreq + 1
            /\ reqUser' = NoUser
            /\ resp' = Reply("courses", 200, "cached", cached.value)
            /\ answered' = [started |-> lastPut.n, courses |-> cached.value]
            /\ UNCHANGED inflight
       ELSE /\ inflight' = Append(inflight,
                              [started |-> lastPut.n,
                               courses |-> coursesList(decodedUserId(token))])
            /\ UNCHANGED <<nreq, reqUser, resp, answered>>
    /\ UNCHANGED <<authVars, progressVars, catalogueVars, lastPut,
                   processVars, cache, today>>

\* GET /api/courses from cacheSet on: the list is stored and sent.
GetCoursesReply(i) ==
    /\ i \in DOMAIN inflight
    /\ nreq' = nreq + 1
    /\ reqUser' = NoUser
    /\ cache' = cacheSet(cache, coursesKey, inflight[i].courses)
    /\ resp' = Reply("courses", 200, "rows", inflight[i].courses)
    /\ answered' = inflight[i]
    /\ inflight' = [j \in 1 .. (Len(inflight) - 1) |->
                       IF j < i THEN inflight[j] ELSE inflight[j + 1]]
    /\ UNCHANGED <<authVars, progressVars, catalogueVars, lastPut,
                   processVars, today>>

----------------------------------------------------------------------------
(* The catalogue handlers of the admin router (routes/admin.js). *)

\* .toLowerCase().trim().replace(/\s+/g, '-').replace(/[^a-z0-9-]/g, '') on
\* the names, slugs and titles in play
slugify(str) ==
    CASE str = "Java" -> "java"
      [] str = "Python" -> "python"
      [] str = "Go Lang" -> "go-lang"
      [] str = "Intro" -> "intro"
      [] OTHER -> str

\* rows whose foreign key column names no row of parents stay as they are
onDeleteCascade_none(rows, column, parents) == rows

\* REFERENCES parent(id) ON DELETE CASCADE: the rows that remain when only
\* the rows of parents are left
onDeleteCascade(rows, column, parents) ==
    {r \in rows : \E parent \in parents : parent.id = r[column]}

\* the caches the course handlers invalidate
invalidateCourses(c) ==
    cacheDeletePattern(cacheDeletePattern(c, <<"courses", "*">>),
                       <<"course", "*">>)

\* POST /api/admin/courses
PostCourse(token, name, slug, description) ==
    /\ nreq + Len(inflight) < MaxCourseReq
    /\ nreq' = nreq + 1
    /\ reqUser' = IF adminGate(token).ok THEN adminGate(token).user.id
                  ELSE NoUser
    /\ LET gate == adminGate(token)
           normalizedSlug == IF slug # Undefined THEN slug ELSE slugify(name)
       IN  IF ~ gate.ok
           THEN /\ resp' = Reply("admin/courses", gate.status, gate.error, << >>)
                /\ UNCHANGED <<courses, courseSeq, cache>>
           ELSE IF name = Undefined
           THEN /\ resp' = Reply("admin/courses", 400, "Course name is required", << >>)
                /\ UNCHANGED <<courses, courseSeq, cache>>
           ELSE IF \E c \in courses : c.name = name \/ c.slug = normalizedSlug
           THEN \* unique_violation
                /\ courseSeq' = courseSeq + 1
                /\ resp' = Reply("admin/courses", 400, "Course with this name or slug already exists", << >>)
                /\ UNCHANGED <<courses, cache>>
           ELSE /\ courseSeq' = courseSeq + 1
                /\ courses' = courses \cup
                     {[id |-> courseSeq + 1, name |-> name,
                       slug |-> normalizedSlug,
                       description |-> IF description = undefined THEN "null"
                                       ELSE description[1]]}
                /\ cache' = invalidateCourses(cache)
                /\ resp' = Reply("admin/courses", 201,
                                 "Course created successfully",
                                 [id |-> courseSeq + 1])
    /\ UNCHANGED <<authVars, progressVars, lessons, lessonSeq, inflight,
                   lastPut, answered, processVars, today>>

\* PUT /api/admin/courses/:courseId
PutCourse(token, courseId, name, slug, description) ==
    /\ nreq + Len(inflight) < MaxCourseReq
    /\ nreq' = nreq + 1
    /\ reqUser' = IF adminGate(token).ok THEN adminGate(token).user.id
                  ELSE NoUser
    /\ LET gate == adminGate(token) IN
       IF ~ gate.ok
       THEN /\ resp' = Reply("admin/courses/put", gate.status, gate.error, << >>)
            /\ UNCHANGED <<courses, cache, lastPut>>
       ELSE IF name = Undefined /\ slug = Undefined /\ description = undefined
       THEN /\ resp' = Reply("admin/courses/put", 400, "No fields provided to update", << >>)
            /\ UNCHANGED <<courses, cache, lastPut>>
       ELSE IF ~ \E c \in courses : c.id = courseId
       THEN /\ resp' = Reply("admin/courses/put", 404, "Course not found", << >>)
            /\ UNCHANGED <<courses, cache, lastPut>>
       ELSE LET old == CHOOSE c \in courses : c.id = courseId
                new == [id |-> old.id,
                        name |-> IF name # Undefined THEN name ELSE old.name,
                        slug |-> IF slug # Undefined THEN slugify(slug)
                                 ELSE IF name # Undefined THEN slugify(name)
                                 ELSE old.slug,
                        description |-> IF description # undefined
                                        THEN description[1]
                                        ELSE old.description]
            IN  IF \E c \in courses \ {old} :
                      c.name = new.name \/ c.slug = new.slug
                THEN \* unique_violation
                     /\ resp' = Reply("admin/courses/put", 400, "Course with this name or slug already exists", << >>)
                     /\ UNCHANGED <<courses, cache, lastPut>>
                ELSE /\ courses' = (courses \ {old}) \cup {new}
                     /\ cache' = invalidateCourses(cache)
                     /\ lastPut' = [n |-> lastPut.n + 1, course |-> new]
                     /\ resp' = Reply("admin/courses/put", 200,
                                      "Course updated successfully", new)
    /\ UNCHANGED <<authVars, progressVars, courseSeq, lessons, lessonSeq,
                   inflight, answered, processVars, today>>

\* DELETE /api/admin/courses/:courseId
DeleteCourse(token, courseId) ==
    /\ nreq + Len(inflight) < MaxCourseReq
    /\ nreq' = nreq + 1
    /\ reqUser' = IF adminGate(token).ok THEN adminGate(token).user.id
                  ELSE NoUser
    /\ LET gate == adminGate(token) IN
       IF ~ gate.ok
       THEN /\ resp' = Reply("admin/courses/delete", gate.status, gate.error, << >>)
            /\ UNCHANGED <<courses, lessons, lesson_progress, cache>>
       ELSE IF ~ \E c \in courses : c.id = courseId
       THEN /\ resp' = Reply("admin/courses/delete", 404, "Course not found", << >>)
            /\ UNCHANGED <<courses, lessons, lesson_progress, cache>>
       ELSE LET slug == (CHOOSE c \in courses : c.id = courseId).slug IN
            /\ courses' = {c \in courses : c.id # courseId}
            /\ lessons' = onDeleteCascade(lessons, "course_id", courses')
            /\ lesson_progress' =
                 onDeleteCascade(lesson_progress, "lesson_id", lessons')
            /\ cache' = cacheDeletePattern(invalidateCourses(cache),
                                           <<"course", slug>>)
            /\ resp' = Reply("admin/courses/delete", 200,
                             "Course and its lessons deleted successfully",
                             << >>)
    /\ UNCHANGED <<authVars, user_progress, upSeq, lpSeq, daily_activity,
                   awarded, courseSeq, lessonSeq, inflight, lastPut, answered,
                   processVars, today>>

\* COALESCE(MAX(order_index), 0) + 1 over the course's lessons
RECURSIVE maxOrder(_)
maxOrder(ls) ==
    IF ls = {} THEN 0
    ELSE LET l == CHOOSE x \in ls : TRUE
         IN  Max(l.order_index, maxOrder(ls \ {l}))

\* POST /api/admin/courses/:courseId/lessons
PostLesson(token, courseId, title) ==
    /\ nreq + Len(inflight) < MaxCourseReq
    /\ nreq' = nreq + 1
    /\ reqUser' = IF adminGate(token).ok THEN adminGate(token).user.id
                  ELSE NoUser
    /\ LET gate == adminGate(token) IN
       IF ~ gate.ok
       THEN /\ resp' = Reply("admin/lessons", gate.status, gate.error, << >>)
            /\ UNCHANGED <<lessons, lessonSeq, cache>>
       ELSE IF title = Undefined
       THEN /\ resp' = Reply("admin/lessons", 400, "Lesson title is required", << >>)
            /\ UNCHANGED <<lessons, lessonSeq, cache>>
       ELSE IF ~ \E c \in courses : c.id = courseId
       THEN /\ resp' = Reply("admin/lessons", 404, "Course not found", << >>)
            /\ UNCHANGED <<lessons, lessonSeq, cache>>
       ELSE LET course == CHOOSE c \in courses : c.id = courseId
                nextOrder == maxOrder({l \in lessons :
                                          l.course_id = courseId}) + 1
            IN  IF \E l \in lessons :
                      l.course_id = courseId /\ l.slug = slugify(title)
                THEN \* unique_violation
                     /\ lessonSeq' = lessonSeq + 1
                     /\ resp' = Reply("admin/lessons", 400, "Lesson with this slug already exists in this course", << >>)
                     /\ UNCHANGED <<lessons, cache>>
                ELSE /\ lessonSeq' = lessonSeq + 1
                     /\ lessons' = lessons \cup
                          {[id |-> lessonSeq + 1, course_id |-> courseId,
                            slug |-> slugify(title),
                            order_index |-> nextOrder, content |-> ""]}
                     /\ cache' = cacheDeletePattern(
                                   cacheDeletePattern(cache,
                                                      <<"courses", "*">>),
                                   <<"course", course.slug>>)
                     /\ resp' = Reply("admin/lessons", 201,
                                      "Lesson created successfully",
                                      [id |-> lessonSeq + 1])
    /\ UNCHANGED <<authVars, progressVars, courses, courseSeq, inflight,
                   lastPut, answered, processVars, today>>

\* DELETE /api/admin/lessons/:lessonId
DeleteLesson(token, lessonId) ==
    /\ nreq + Len(inflight) < MaxCourseReq
    /\ nreq' = nreq + 1
    /\ reqUser' = IF adminGate(token).ok THEN adminGate(token).user.id
                  ELSE NoUser
    /\ LET gate == adminGate(token)
           info == {c \in courses : \E l \in lessons :
                       l.id = lessonId /\ l.course_id = c.id}
       IN  IF ~ gate.ok
           THEN /\ resp' = Reply("admin/lessons/delete", gate.status, gate.error, << >>)
                /\ UNCHANGED <<lessons, lesson_progress, cache>>
           ELSE IF info = {}
           THEN /\ resp' = Reply("admin/lessons/delete", 404, "Lesson not found", << >>)
                /\ UNCHANGED <<lessons, lesson_progress, cache>>
           ELSE /\ lessons' = {l \in lessons : l.id # lessonId}
                /\ lesson_progress' =
                     onDeleteCascade(lesson_progress, "lesson_id", lessons')
                /\ cache' = cacheDeletePattern(
                              cacheDeletePattern(cache, <<"courses", "*">>),
                              <<"course", (CHOOSE c \in info : TRUE).slug>>)
                /\ resp' = Reply("admin/lessons/delete", 200, "Lesson deleted successfully", << >>)
    /\ UNCHANGED <<authVars, user_progress, upSeq, lpSeq, daily_activity,
                   awarded, courses, courseSeq, lessonSeq, inflight, lastPut,
                   answered, processVars, today>>

----------------------------------------------------------------------------
(* routes/courses.js GET /:slug, and the lesson handlers of the admin      *)
(* router that rewrite a lesson's content.                                 *)

CourseSlugs == {"java", "python"}
Contents == {Undefined, "v1"}

\* ORDER BY l.order_index
RECURSIVE byOrder(_)
byOrder(ls) ==
    IF ls = {} THEN << >>
    ELSE LET l == CHOOSE x \in ls :
                     \A y \in ls : x.order_index <= y.order_index
         IN  <<l>> \o byOrder(ls \ {l})

\* SELECT l.*, COALESCE(lp.completed, false), COALESCE(lp.progress_percentage,
\* 0) FROM lessons l LEFT JOIN lesson_progress lp ON l.id = lp.lesson_id AND
\* lp.user_id = $1 WHERE l.course_id = $2
lessonRow(l, userId) ==
    LET lp == {r \in lesson_progress :
                  r.lesson_id = l.id /\ r.user_id = userId}
    IN  [id |-> l.id, slug |-> l.slug, order_index |-> l.order_index,
         content |-> l.content,
         completed |-> IF lp = {} THEN FALSE
                       ELSE (CHOOSE r \in lp : TRUE).completed,
         progress_percentage |->
             IF lp = {} THEN 0
             ELSE (CHOOSE r \in lp : TRUE).progress_percentage]

\* course.lessons = lessonsResult.rows
courseWithLessons(course, userId) ==
    LET ordered == byOrder({l \in lessons : l.course_id = course.id})
    IN  [id |-> course.id, name |-> course.name, slug |-> course.slug,
         description |-> course.description,
         lessons |-> [i \in 1 .. Len(ordered) |->
                         lessonRow(ordered[i], userId)]]

courseKey(slug) == <<"course", slug>>

\* GET /api/courses/:slug
GetCourse(token, slug) ==
    /\ nreq + Len(inflight) < MaxCourseReq
    /\ nreq' = nreq + 1
    /\ reqUser' = decodedUserId(token)
    /\ LET cached == cacheGet(cache, courseKey(slug)) IN
       IF cached.hit
       THEN /\ resp' = Reply("course", 200, "cached", cached.value)
            /\ UNCHANGED cache
       ELSE IF ~ \E c \in courses : c.slug = slug
       THEN /\ resp' = Reply("course", 404, "Course not found", << >>)
            /\ UNCHANGED cache
       ELSE LET course ==
                  courseWithLessons(CHOOSE c \in courses : c.slug = slug,
                                    decodedUserId(token))
            IN  /\ cache' = cacheSet(cache, courseKey(slug), course)
                /\ resp' = Reply("course", 200, "rows", course)
    /\ UNCHANGED <<authVars, progressVars, courseVars, processVars, today>>

\* PUT /api/admin/lessons/:lessonId
PutLesson(token, lessonId, content) ==
    /\ nreq + Len(inflight) < MaxCourseReq
    /\ nreq' = nreq + 1
    /\ reqUser' = IF adminGate(token).ok THEN adminGate(token).user.id
                  ELSE NoUser
    /\ LET gate == adminGate(token) IN
       IF ~ gate.ok
       THEN /\ resp' = Reply("admin/lessons/put", gate.status, gate.error,
                             << >>)
            /\ UNCHANGED <<lessons, cache>>
       ELSE IF content = Undefined
       THEN /\ resp' = Reply("admin/lessons/put", 400, "Content is required",
                             << >>)
            /\ UNCHANGED <<lessons, cache>>
       ELSE IF ~ \E l \in lessons : l.id = lessonId
       THEN /\ resp' = Reply("admin/lessons/put", 404, "Lesson not found",
                             << >>)
            /\ UNCHANGED <<lessons, cache>>
       ELSE /\ lessons' = {IF l.id = lessonId
                           THEN [l EXCEPT !.content = content]
                           ELSE l : l \in lessons}
            /\ cache' = cacheDeletePattern(cache, <<"admin", "*">>)
            /\ resp' = Reply("admin/lessons/put", 200,
                             "Lesson updated successfully",
                             [id |-> lessonId, content |-> content])
    /\ UNCHANGED <<authVars, progressVars, courses, courseSeq, lessonSeq,
                   inflight, lastPut, answered, processVars, today>>

\* POST /api/admin/lessons/:lessonId/generate-content; generated says
\* whether generateLessonContent returned a text or threw
GenerateContent(token, lessonId, generated) ==
    /\ nreq + Len(inflight) < MaxCourseReq
    /\ nreq' = nreq + 1
    /\ reqUser' = IF adminGate(token).ok THEN adminGate(token).user.id
                  ELSE NoUser
    /\ LET gate == adminGate(token) IN
       IF ~ gate.ok
       THEN /\ resp' = Reply("admin/lessons/generate", gate.status,
                             gate.error, << >>)
            /\ UNCHANGED <<lessons, cache>>
       ELSE IF ~ \E l \in lessons : l.id = lessonId
       THEN /\ resp' = Reply("admin/lessons/generate", 404,
                             "Lesson not found", << >>)
            /\ UNCHANGED <<lessons, cache>>
       ELSE IF ~ generated
       THEN /\ resp' = Reply("admin/lessons/generate", 500,
                             "Failed to generate content", << >>)
            /\ UNCHANGED <<lessons, cache>>
       ELSE /\ lessons' = {IF l.id = lessonId
                           THEN [l EXCEPT !.content = "generated"]
                           ELSE l : l \in lessons}
            /\ cache' = cacheDeletePattern(invalidateCourses(cache),
                                           <<"admin", "*">>)
            /\ resp' = Reply("admin/lessons/generate", 200,
                             "Content generated and saved successfully",
                             [id |-> lessonId, content |-> "generated"])
    /\ UNCHANGED <<authVars, progressVars, courses, courseSeq, lessonSeq,
                   inflight, lastPut, answered, processVars, today>>

----------------------------------------------------------------------------
(* Redis: the client's 'error' and 'connect' events (config/redis.js), and  *)
(* the expiry of a key stored with setEx.                                  *)

\* redisClient.on('error', ...)
RedisError ==
    /\ redisClient # Null
    /\ redisConnected
    /\ redisConnected' = FALSE
    /\ UNCHANGED <<authVars, progressVars, courseVars, cache, redisClient,
                   redisFailing, tzEast, pending, socketVars, boot, execVars, today, resp, reqUser,
                   nreq>>

\* redisClient.on('connect', ...)
RedisConnect ==
    /\ redisClient # Null
    /\ ~ redisConnected
    /\ redisConnected' = TRUE
    /\ UNCHANGED <<authVars, progressVars, courseVars, cache, redisClient,
                   redisFailing, tzEast, pending, socketVars, boot, execVars, today, resp, reqUser,
                   nreq>>

\* The Redis server begins to answer commands with an error (out of memory,
\* loading, read-only replica): client.get, setEx, keys and del reject, and
\* the helpers' catch blocks run.
RedisCommandsFail ==
    /\ redisClient # Null
    /\ ~ redisFailing
    /\ redisFailing' = TRUE
    /\ UNCHANGED <<authVars, progressVars, courseVars, cache, redisClient,
                   redisConnected, tzEast, pending, socketVars, boot, execVars, today, resp, reqUser,
                   nreq>>

\* The Redis server answers commands again.
RedisCommandsRecover ==
    /\ redisFailing
    /\ redisFailing' = FALSE
    /\ UNCHANGED <<authVars, progressVars, courseVars, cache, redisClient,
                   redisConnected, tzEast, pending, socketVars, boot, execVars, today, resp, reqUser,
                   nreq>>

\* the expiration of setEx passes for a key
CacheExpire(key) ==
    /\ key \in DOMAIN cache
    /\ cache' = del(cache, {key})
    /\ UNCHANGED <<authVars, progressVars, courseVars, processVars, today,
                   resp, reqUser, nreq>>

----------------------------------------------------------------------------
(* routes/execute.js: executeCode and executeCommand.  A call is a record:  *)
(* what was submitted, the identifiers drawn for it, where its promise      *)
(* stands, and where its cleanup command stands.  The submitted program is  *)
(* given by what the runner can observe of it: whether it exits by itself   *)
(* and with which status and output, and what it does on SIGTERM, a signal  *)
(* a process may leave to its default (it dies of the signal) or ignore.    *)

\* const timeout = 10000 (executeCode), const timeout = 5000 (executeCommand)
executeCodeTimeout == 10000
executeCommandTimeout == 5000

\* The languages of the switch: python stands for the cases that name the
\* file after fileId and remove it with rm, java is the case that names it
\* after className and removes it with rm -f.
Languages == {"python", "java"}

\* Math.random().toString(36).substring(7)
RandomIds == {"a", "b"}

Hello == [run |-> "exit", code |-> 0, stdout |-> "hello", stderr |-> "",
          onSIGTERM |-> "die"]
Crash == [run |-> "exit", code |-> 1, stdout |-> "", stderr |-> "error: x",
          onSIGTERM |-> "die"]
Loop == [run |-> "loop", code |-> 1, stdout |-> "", stderr |-> "",
         onSIGTERM |-> "die"]
LoopIgnore == [run |-> "loop", code |-> 1, stdout |-> "", stderr |-> "",
               onSIGTERM |-> "ignore"]

Programs == {Hello, Crash, Loop, LoopIgnore}

NoResult == [success |-> FALSE, output |-> "", error |-> "pending"]

\* const fileId = `${language}_${timestamp}_${randomId}`
fileId(language, timestamp, randomId) == <<language, timestamp, randomId>>

\* const className = `Main_${randomId}`
className(randomId) == <<"Main", randomId>>

\* The path of the temp file the call writes: ${fileId}.py, or
\* ${className}.java for Java.
filePath(call) ==
    IF call.language = "java"
    THEN <<className(call.randomId), "java">>
    ELSE <<fileId(call.language, call.timestamp, call.randomId), "py">>

\* cleanupCommand with the name of another file.
cleanupCommand_otherFile(call) ==
    [paths |-> {<<filePath(call), "bak">>}, force |-> call.language = "java"]

\* cleanupCommand: the paths it removes, and whether with rm -f, which does
\* not fail on a missing file
cleanupCommand(call) ==
    [paths |-> {filePath(call)}, force |-> call.language = "java"]

timeoutOf(call) ==
    IF call.kind = "code" THEN executeCodeTimeout ELSE executeCommandTimeout

\* The value the exec callback resolves the promise with, from the error
\* exec reports: the signal that ended the child (or "null"), its exit code.
resolved(call, signal, code, stdout, stderr) ==
    IF signal = "SIGTERM"
    THEN [success |-> FALSE, output |-> "",
          error |-> IF call.kind = "code"
                    THEN "Execution timeout: Code took too long to execute (max 10 seconds)"
                    ELSE "Command timeout"]
    ELSE IF code # 0
    THEN [success |-> FALSE, output |-> stdout,
          error |-> IF stderr # "" THEN stderr ELSE "Command failed"]
    ELSE [success |-> TRUE, output |-> stdout, error |-> stderr]

\* The exec callback: the cleanup command is started, the promise resolved.
callback(call, signal, code) ==
    [call EXCEPT
        !.state = "resolved",
        !.result = resolved(call, signal, code, call.program.stdout,
                            call.program.stderr),
        !.cleanup = IF call.kind = "code" THEN "pending" ELSE "none"]

\* executeCode(code, language): the identifiers are drawn, the file written
\* and the child spawned; an unsupported language throws before any of it.
ExecuteCode(language, program, randomId) ==
    /\ Len(calls) < MaxCalls
    /\ LET call == [kind |-> "code", language |-> language,
                    program |-> program, timestamp |-> now,
                    randomId |-> randomId, state |-> "running",
                    signalled |-> FALSE, result |-> NoResult,
                    cleanup |-> "none"]
       IN  IF language \notin Languages
           THEN /\ calls' = Append(calls, [call EXCEPT !.state = "rejected"])
                /\ UNCHANGED tempDir
           ELSE /\ calls' = Append(calls, call)
                /\ tempDir' = tempDir \cup {filePath(call)}
    /\ UNCHANGED <<authVars, progressVars, courseVars, cache, redisClient,
                   redisConnected, redisFailing, tzEast, pending, socketVars, boot, now, today, resp, reqUser, nreq>>

\* executeCommand(command, language): the child is spawned.
ExecuteCommand(program) ==
    /\ Len(calls) < MaxCalls
    /\ calls' = Append(calls,
                  [kind |-> "command", language |-> "sh", program |-> program,
                   timestamp |-> now, randomId |-> "", state |-> "running",
                   signalled |-> FALSE, result |-> NoResult,
                   cleanup |-> "none"])
    /\ UNCHANGED <<authVars, progressVars, courseVars, cache, redisClient,
                   redisConnected, redisFailing, tzEast, pending, socketVars, boot, now, tempDir, today, resp, reqUser,
                   nreq>>

\* The child of call i exits by itself before the timeout, and the callback
\* runs.
ChildExit(i) ==
    /\ i \in DOMAIN calls
    /\ calls[i].state = "running"
    /\ calls[i].program.run = "exit"
    /\ now - calls[i].timestamp < timeoutOf(calls[i])
    /\ calls' = [calls EXCEPT
                   ![i] = callback(calls[i], "null", calls[i].program.code)]
    /\ UNCHANGED <<authVars, progressVars, courseVars, cache, redisClient,
                   redisConnected, redisFailing, tzEast, pending, socketVars, boot, now, tempDir, today, resp, reqUser,
                   nreq>>

\* The process exec's child is when the signal is sent.  exec runs
\* /bin/sh -c command: for the java command line (cd && javac && java) the
\* child is sh, which dies of SIGTERM; for a command line that is one
\* command, sh either waits for the program or has replaced itself by it.
signalTargets(call) ==
    IF call.language = "java" THEN {"sh"} ELSE {"sh", "program"}

\* The timeout of call i passes with its child running: the child is sent
\* SIGTERM (exec's timeout option, and process.kill('SIGTERM') of the
\* timer).  A child that dies of it closes, and the callback runs; one that
\* ignores it runs on.
Timeout(i) ==
    /\ i \in DOMAIN calls
    /\ calls[i].state = "running"
    /\ ~ calls[i].signalled
    /\ now - calls[i].timestamp >= timeoutOf(calls[i])
    /\ \E target \in signalTargets(calls[i]) :
         LET call == [calls[i] EXCEPT !.signalled = TRUE] IN
         calls' = [calls EXCEPT ![i] =
                     IF target = "sh" \/ call.program.onSIGTERM = "die"
                     THEN callback(call, "SIGTERM", 0)
                     ELSE call]
    /\ UNCHANGED <<authVars, progressVars, courseVars, cache, redisClient,
                   redisConnected, redisFailing, tzEast, pending, socketVars, boot, now, tempDir, today, resp, reqUser,
                   nreq>>

\* The cleanup callback: an error is logged, the call's result is the one
\* the promise was resolved with.
cleanupCallback(call, cleanupError) ==
    [call EXCEPT !.cleanup = IF cleanupError THEN "failed" ELSE "done"]

\* The cleanup command of call i runs: rm fails on a file that is not there,
\* rm -f does not.
Cleanup(i) ==
    /\ i \in DOMAIN calls
    /\ calls[i].cleanup = "pending"
    /\ LET cmd == cleanupCommand(calls[i]) IN
       /\ tempDir' = tempDir \ cmd.paths
       /\ calls' = [calls EXCEPT ![i] =
                      cleanupCallback(calls[i],
                          ~ cmd.force /\ ~ (cmd.paths \subseteq tempDir))]
    /\ UNCHANGED <<authVars, progressVars, courseVars, cache, redisClient,
                   redisConnected, redisFailing, tzEast, pending, socketVars, boot, now, today, resp, reqUser, nreq>>

\* Time passes while a child runs: no further than the next timeout due.
Tick ==
    /\ \E i \in DOMAIN calls :
          calls[i].state = "running" /\ ~ calls[i].signalled
    /\ \A i \in DOMAIN calls :
          (calls[i].state = "running" /\ ~ calls[i].signalled)
          => now - calls[i].timestamp < timeoutOf(calls[i])
    /\ now' = now + executeCommandTimeout
    /\ UNCHANGED <<authVars, progressVars, courseVars, cache, redisClient,
                   redisConnected, redisFailing, tzEast, pending, socketVars, boot, calls, tempDir, today, resp,
                   reqUser, nreq>>

----------------------------------------------------------------------------
(* routes/execute.js: router.post('/command').  A command line is given by *)
(* whether it begins with white space and by its white-space-separated     *)
(* tokens; the empty command line is the missing (or empty) body field.    *)

CommandLine(lead, tokens) == [lead |-> lead, tokens |-> tokens]

NoCommand == CommandLine(FALSE, << >>)

CommandLines ==
    {NoCommand, CommandLine(TRUE, << >>)} \cup
    {CommandLine(lead, tokens) :
        lead \in BOOLEAN,
        tokens \in {<<"ls">>, <<"rm", "x">>, <<"cd", "x;rm">>,
                    <<"python3", "x">>}}

\* req.body.language: missing, a key of languageCommands, a name every
\* object inherits
CommandLanguages == {Undefined, "python", "constructor"}

\* const safeCommands = [...]
safeCommands ==
    {"ls", "pwd", "echo", "cat", "head", "tail", "grep", "wc", "date",
     "whoami"}

\* languageCommands[language?.toLowerCase()]: the list of an own key,
\* undefined for a missing language or an unknown name, and the inherited
\* member (a function, which cannot be spread) for a name of
\* Object.prototype.
languageCommands(language) ==
    CASE language = "python" -> [iterable |-> TRUE,
                                 list |-> {"python3", "python", "pip", "pip3"}]
      [] language = "java" -> [iterable |-> TRUE,
                               list |-> {"javac", "java", "javap"}]
      [] language = "nodejs" -> [iterable |-> TRUE,
                                 list |-> {"node", "npm", "npx"}]
      [] language = "golang" -> [iterable |-> TRUE,
                                 list |-> {"go", "gofmt", "goimports"}]
      [] language = "constructor" -> [iterable |-> FALSE, list |-> {}]
      [] OTHER -> [iterable |-> TRUE, list |-> {}]

\* const allowedCommands = [...safeCommands, ...(languageCommands[...] || [])]
allowedCommands(language) == safeCommands \cup languageCommands(language).list

\* command.trim().split(/\s+/)[0]
baseCommand(command) ==
    IF command.tokens = << >> THEN "" ELSE command.tokens[1]

\* command.startsWith('cd ')
startsWithCd(command) ==
    /\ ~ command.lead
    /\ Len(command.tokens) >= 2
    /\ command.tokens[1] = "cd"

\* The test of the handler that lets a command through to executeCommand.
letThrough(command, language) ==
    baseCommand(command) \in allowedCommands(language) \/ startsWithCd(command)

\* POST /api/execute/command
PostCommand(token, command, language, program) ==
    /\ nreq < MaxReq
    /\ nreq' = nreq + 1
    /\ reqUser' = IF authenticate(token).ok THEN authenticate(token).user.id
                  ELSE NoUser
    /\ LET auth == authenticate(token) IN
       IF ~ auth.ok
       THEN /\ resp' = Reply("execute/command", auth.status, auth.error, << >>)
            /\ UNCHANGED calls
       ELSE IF command = NoCommand
       THEN /\ resp' = Reply("execute/command", 400, "Command is required", << >>)
            /\ UNCHANGED calls
       ELSE IF ~ languageCommands(language).iterable
       THEN /\ resp' = Reply("execute/command", 500, "Failed to execute command", << >>)
            /\ UNCHANGED calls
       ELSE IF ~ letThrough(command, language)
       THEN /\ resp' = Reply("execute/command", 200, "Command is not allowed for security reasons", [success |-> FALSE, baseCommand |-> baseCommand(command)])
            /\ UNCHANGED calls
       ELSE /\ Len(calls) < MaxCalls
            /\ calls' = Append(calls,
                  [kind |-> "command", language |-> "sh", program |-> program,
                   timestamp |-> now, randomId |-> "", state |-> "running",
                   signalled |-> FALSE, result |-> NoResult,
                   cleanup |-> "none"])
            /\ resp' = NoResponse
    /\ UNCHANGED <<authVars, progressVars, courseVars, cache, redisClient,
                   redisConnected, redisFailing, tzEast, pending, socketVars, boot, now, tempDir, today>>

\* The code and language fields of a request body: missing, or a text.
Codes == {Undefined, "print(1)"}
CodeLanguages == {Undefined, "python", "ruby"}

\* the check with the test of language left out
missingFields_codeOnly(code, language) == code = Undefined

\* if (!code || !language)
missingFields(code, language) == code = Undefined \/ language = Undefined

\* POST /api/execute/code: authenticate, the check of the fields, then
\* executeCode, whose promise the handler awaits before it answers
PostCode(token, code, language, program, randomId) ==
    /\ nreq < MaxReq
    /\ nreq' = nreq + 1
    /\ reqUser' = IF authenticate(token).ok THEN authenticate(token).user.id
                  ELSE NoUser
    /\ LET auth == authenticate(token)
           call == [kind |-> "code", language |-> language,
                    program |-> program, timestamp |-> now,
                    randomId |-> randomId, state |-> "running",
                    signalled |-> FALSE, result |-> NoResult,
                    cleanup |-> "none"]
       IN
       IF ~ auth.ok
       THEN /\ resp' = Reply("execute/code", auth.status, auth.error, << >>)
            /\ UNCHANGED <<calls, tempDir>>
       ELSE IF missingFields(code, language)
       THEN /\ resp' = Reply("execute/code", 400,
                             "Code and language are required", << >>)
            /\ UNCHANGED <<calls, tempDir>>
       ELSE /\ Len(calls) < MaxCalls
            /\ IF language \notin Languages
               THEN /\ calls' = Append(calls,
                                       [call EXCEPT !.state = "rejected"])
                    /\ resp' = Reply("execute/code", 500,
                                     "Failed to execute code", << >>)
                    /\ UNCHANGED tempDir
               ELSE /\ calls' = Append(calls, call)
                    /\ tempDir' = tempDir \cup {filePath(call)}
                    /\ resp' = NoResponse
    /\ UNCHANGED <<authVars, progressVars, courseVars, cache, redisClient,
                   redisConnected, redisFailing, tzEast, pending, socketVars,
                   boot, now, today>>

----------------------------------------------------------------------------
(* POST /api/auth/register and PUT /api/user/profile with the awaits       *)
(* between their SELECT and their INSERT or UPDATE: other requests run     *)
(* while a request waits.                                                  *)

\* no constraint on the table
uniqueViolation_none(us, row) == FALSE

\* username VARCHAR(50) UNIQUE NOT NULL, email VARCHAR(100) UNIQUE NOT NULL:
\* the statement that would leave row in the table fails with 23505 when
\* another row has its username or its email
uniqueViolation(us, row) ==
    \E u \in us :
       u.id # row.id /\ (u.username = row.username \/ u.email = row.email)

\* pending without its i-th request
without(seq, i) ==
    [j \in 1 .. (Len(seq) - 1) |-> IF j < i THEN seq[j] ELSE seq[j + 1]]

\* POST /api/auth/register up to bcrypt.hash
RegisterCheck(username, email, password) ==
    /\ nreq + Len(pending) < MaxReq
    /\ reqUser' = NoUser
    /\ IF username = Undefined \/ email = Undefined \/ password = Undefined
       THEN /\ nreq' = nreq + 1
            /\ resp' = Reply("register", 400, "All fields are required", << >>)
            /\ UNCHANGED pending
       ELSE IF existingUser(email, username) # {}
       THEN /\ nreq' = nreq + 1
            /\ resp' = Reply("register", 400, "User already exists", << >>)
            /\ UNCHANGED pending
       ELSE /\ pending' = Append(pending,
                             [op |-> "register", username |-> username,
                              email |-> email, password |-> password])
            /\ UNCHANGED <<nreq, resp>>
    /\ UNCHANGED <<authVars, progressVars, courseVars, cache, redisClient,
                   redisConnected, redisFailing, tzEast, socketVars, boot,
                   execVars, today>>

\* POST /api/auth/register from its INSERT on
RegisterInsert(i) ==
    /\ i \in DOMAIN pending
    /\ pending[i].op = "register"
    /\ nreq' = nreq + 1
    /\ reqUser' = NoUser
    /\ pending' = without(pending, i)
    /\ userSeq' = userSeq + 1
    /\ LET row == NewUser(userSeq + 1, pending[i].username, pending[i].email,
                          bcryptHash(pending[i].password))
       IN  IF uniqueViolation(users, row)
           THEN /\ resp' = Reply("register", 500, "Internal server error",
                                 << >>)
                /\ UNCHANGED users
           ELSE /\ users' = users \cup {row}
                /\ resp' = Reply("register", 201,
                                 "User registered successfully",
                                 [token |-> jwtSign(userSeq + 1)])
    /\ UNCHANGED <<user_sessions, sessionSeq, progressVars, courseVars, cache,
                   redisClient, redisConnected, redisFailing, tzEast,
                   socketVars, boot, execVars, today>>

\* PUT /api/user/profile up to the answer of its SELECT
ProfileCheck(token, username) ==
    /\ nreq + Len(pending) < MaxReq
    /\ reqUser' = IF authenticate(token).ok THEN authenticate(token).user.id
                  ELSE NoUser
    /\ LET auth == authenticate(token) IN
       IF ~ auth.ok
       THEN /\ nreq' = nreq + 1
            /\ resp' = Reply("profile", auth.status, auth.error, << >>)
            /\ UNCHANGED <<pending, cache>>
       ELSE IF username = Undefined
       THEN /\ nreq' = nreq + 1
            /\ cache' = cacheDelete(cache, userKey(auth.user.id, "profile"))
            /\ resp' = Reply("profile", 200, "Profile updated successfully",
                             [username |-> auth.user.username])
            /\ UNCHANGED pending
       ELSE IF \E u \in users : u.username = username /\ u.id # auth.user.id
       THEN /\ nreq' = nreq + 1
            /\ resp' = Reply("profile", 400, "Username already taken", << >>)
            /\ UNCHANGED <<pending, cache>>
       ELSE /\ pending' = Append(pending,
                             [op |-> "profile", userId |-> auth.user.id,
                              username |-> username])
            /\ UNCHANGED <<nreq, resp, cache>>
    /\ UNCHANGED <<authVars, progressVars, courseVars, redisClient,
                   redisConnected, redisFailing, tzEast, socketVars, boot,
                   execVars, today>>

\* PUT /api/user/profile from its UPDATE on
ProfileUpdate(i) ==
    /\ i \in DOMAIN pending
    /\ pending[i].op = "profile"
    /\ nreq' = nreq + 1
    /\ reqUser' = pending[i].userId
    /\ pending' = without(pending, i)
    /\ LET row == [RowOf(users, pending[i].userId)
                      EXCEPT !.username = pending[i].username]
       IN  IF uniqueViolation(users, row)
           THEN /\ resp' = Reply("profile", 500, "Internal server error",
                                 << >>)
                /\ UNCHANGED <<users, cache>>
           ELSE /\ users' = {IF u.id = row.id THEN row ELSE u : u \in users}
                /\ cache' = cacheDelete(cache, userKey(row.id, "profile"))
                /\ resp' = Reply("profile", 200,
                                 "Profile updated successfully",
                                 [username |-> row.username])
    /\ UNCHANGED <<userSeq, user_sessions, sessionSeq, progressVars,
                   courseVars, redisClient, redisConnected, redisFailing,
                   tzEast, socketVars, boot, execVars, today>>

----------------------------------------------------------------------------
(* index.js io.on('connection') and middleware/activeUsers.js.  The Redis  *)
(* SET 'active_users' is given by its members in the order they were       *)
(* added.  The handlers call trackActiveUsers without awaiting it; its     *)
(* commands reach Redis in the order of the events, one connection         *)
(* carrying them, so an event is modelled with the commands it issues.     *)

Sockets == {"s1", "s2"}

\* SADD with every call adding a member.
sAdd_push(set, member) == Append(set, member)

\* SADD key member: a member already in the set is not added again
sAdd(set, member) ==
    IF \E i \in DOMAIN set : set[i] = member THEN set
    ELSE Append(set, member)

\* SREM key member
sRem(set, member) == SelectSeq(set, LAMBDA m : m # member)

\* SCARD key
sCard(set) == Len(set)

activeUserKey(userId) == <<"active_user", ToString(userId)>>

\* trackActiveUsers(userId, isActive): the keyspace and the set after it.
\* Without a client it returns at once; a command that fails throws into
\* its catch (cacheSet and cacheDelete have their own).
trackActiveUsers(userId, isActive) ==
    IF getRedisClient = Null
    THEN [cache |-> cache, set |-> activeUsers]
    ELSE IF isActive
    THEN [cache |-> cacheSet(cache, activeUserKey(userId),
                             [userId |-> userId]),
          set |-> IF redisFailing THEN activeUsers
                  ELSE sAdd(activeUsers, ToString(userId))]
    ELSE [cache |-> cacheDelete(cache, activeUserKey(userId)),
          set |-> IF redisFailing THEN activeUsers
                  ELSE sRem(activeUsers, ToString(userId))]

\* getActiveUsersCount(): SCARD of the set, 0 without a client or on an
\* error
getActiveUsersCount ==
    IF getRedisClient = Null THEN 0
    ELSE IF redisFailing THEN 0
    ELSE sCard(activeUsers)

\* io.on('connection')
SocketConnect(socket) ==
    /\ socket \notin sockets
    /\ sockets' = sockets \cup {socket}
    /\ UNCHANGED <<authVars, progressVars, courseVars, cache, redisClient,
                   redisConnected, redisFailing, tzEast, pending, boot,
                   userSocketMap, activeUsers, execVars, today, resp, reqUser,
                   nreq>>

\* socket.on('user-active', userId)
UserActive(socket, userId) ==
    /\ socket \in sockets
    /\ userSocketMap' =
         [s \in DOMAIN userSocketMap \cup {socket} |->
             IF s = socket THEN userId ELSE userSocketMap[s]]
    /\ cache' = trackActiveUsers(userId, TRUE).cache
    /\ activeUsers' = trackActiveUsers(userId, TRUE).set
    /\ UNCHANGED <<authVars, progressVars, courseVars, redisClient,
                   redisConnected, redisFailing, tzEast, pending, boot, sockets,
                   execVars, today, resp, reqUser, nreq>>

\* socket.on('disconnect')
SocketDisconnect(socket) ==
    /\ socket \in sockets
    /\ sockets' = sockets \ {socket}
    /\ IF socket \in DOMAIN userSocketMap
       THEN /\ cache' = trackActiveUsers(userSocketMap[socket], FALSE).cache
            /\ activeUsers' =
                 trackActiveUsers(userSocketMap[socket], FALSE).set
            /\ userSocketMap' =
                 [s \in DOMAIN userSocketMap \ {socket} |-> userSocketMap[s]]
       ELSE UNCHANGED <<cache, activeUsers, userSocketMap>>
    /\ UNCHANGED <<authVars, progressVars, courseVars, redisClient,
                   redisConnected, redisFailing, tzEast, pending, boot, execVars,
                   today, resp, reqUser, nreq>>

\* client.expire(ACTIVE_USERS_KEY, ACTIVE_USERS_EXPIRY): 300 s pass
\* without another user-active, and Redis removes the key
ActiveUsersExpire ==
    /\ activeUsers # << >>
    /\ activeUsers' = << >>
    /\ UNCHANGED <<authVars, progressVars, courseVars, cache, redisClient,
                   redisConnected, redisFailing, tzEast, pending, boot, sockets,
                   userSocketMap, execVars, today, resp, reqUser, nreq>>

----------------------------------------------------------------------------
(* config/database.js: testConnection and initDatabase.  boot follows one  *)
(* call: the loop counter i of testConnection, the queries it has made,    *)
(* how it ended, the schema statement initDatabase has reached and the     *)
(* state of the promise initDatabase returned.                             *)

\* testConnection = async (retries = 10, delay = 3000)
retriesDefault == 10

\* The values of retries a call is made with, the default included.
MaxRetries == 3
RetriesValues == (0 .. MaxRetries) \cup {retriesDefault}

\* The pool.query calls of initDatabase's body after testConnection.
MaxStatements == 3

\* An async function whose body is not inside try/catch.
settle_noCatch(threw) == IF threw THEN "rejected" ELSE "resolved"

\* initDatabase's whole body is inside try { } catch (error) { }, and the
\* catch block only logs: the promise resolves whether or not the body threw
settle(threw) == "resolved"

\* if (i === retries - 1) throw error
lastAttempt(i, retries) == i = retries - 1

\* initDatabase() at start-up: await testConnection()
InitDatabase ==
    /\ boot.pc = "idle"
    /\ boot' = [boot EXCEPT !.caller = "initDatabase", !.pc = "loop",
                            !.retries = retriesDefault, !.promise = "pending"]
    /\ UNCHANGED <<authVars, progressVars, courseVars, cache, redisClient,
                   redisConnected, redisFailing, tzEast, pending, socketVars,
                   execVars, today, resp, reqUser, nreq>>

\* testConnection(retries) called with an explicit number of retries
TestConnection(retries) ==
    /\ boot.pc = "idle"
    /\ boot' = [boot EXCEPT !.caller = "direct", !.pc = "loop",
                            !.retries = retries]
    /\ UNCHANGED <<authVars, progressVars, courseVars, cache, redisClient,
                   redisConnected, redisFailing, tzEast, pending, socketVars,
                   execVars, today, resp, reqUser, nreq>>

\* How a call of testConnection that ended leaves boot: initDatabase goes on
\* to its schema statements or into its catch.
afterTest(b, outcome) ==
    IF b.caller = "initDatabase"
    THEN IF outcome = "thrown"
         THEN [b EXCEPT !.outcome = outcome, !.pc = "done",
                        !.promise = settle(TRUE)]
         ELSE [b EXCEPT !.outcome = outcome, !.pc = "schema"]
    ELSE [b EXCEPT !.outcome = outcome, !.pc = "done"]

\* One turn of for (let i = 0; i < retries; i++): pool.query('SELECT NOW()')
\* answers or throws
Attempt(ok) ==
    /\ boot.pc = "loop"
    /\ boot.i < boot.retries
    /\ boot' =
         LET b == [boot EXCEPT !.attempts = @ + 1, !.lastOk = ok] IN
         IF ok THEN afterTest(b, "true")
         ELSE IF lastAttempt(boot.i, boot.retries)
         THEN afterTest(b, "thrown")
         ELSE [b EXCEPT !.i = @ + 1]
    /\ UNCHANGED <<authVars, progressVars, courseVars, cache, redisClient,
                   redisConnected, redisFailing, tzEast, pending, socketVars,
                   execVars, today, resp, reqUser, nreq>>

\* The loop condition is false: the function ends without a return value
LoopEnd ==
    /\ boot.pc = "loop"
    /\ ~ (boot.i < boot.retries)
    /\ boot' = afterTest(boot, "undefined")
    /\ UNCHANGED <<authVars, progressVars, courseVars, cache, redisClient,
                   redisConnected, redisFailing, tzEast, pending, socketVars,
                   execVars, today, resp, reqUser, nreq>>

\* One await pool.query(...) of the schema and seed statements
SchemaStatement(ok) ==
    /\ boot.pc = "schema"
    /\ boot' =
         IF ~ ok
         THEN [boot EXCEPT !.pc = "done", !.schemaFailed = TRUE,
                           !.promise = settle(TRUE)]
         ELSE IF boot.stmt + 1 = MaxStatements
         THEN [boot EXCEPT !.stmt = @ + 1, !.pc = "done",
                           !.promise = settle(FALSE)]
         ELSE [boot EXCEPT !.stmt = @ + 1]
    /\ UNCHANGED <<authVars, progressVars, courseVars, cache, redisClient,
                   redisConnected, redisFailing, tzEast, pending, socketVars,
                   execVars, today, resp, reqUser, nreq>>

----------------------------------------------------------------------------
(* The clock: midnight UTC passes. *)

NextDay ==
    /\ today < MaxDay
    /\ today' = today + 1
    /\ UNCHANGED <<authVars, progressVars, courseVars, processVars, cache,
                   resp, reqUser, nreq>>

----------------------------------------------------------------------------
(* The state after construction: initDatabase has created the schema and   *)
(* seeded the catalogue, no user is registered, and initRedis has either   *)
(* connected or failed.                                                    *)

\* No course has been updated, no course list answered.
NoPut == [n |-> 0, course |-> << >>]
NoAnswer == [started |-> 0, courses |-> << >>]

SeedCourses ==
    {[id |-> 1, name |-> "Java", slug |-> "java", description |-> "v0"],
     [id |-> 2, name |-> "Python", slug |-> "python", description |-> "v0"]}

SeedLessons ==
    {[id |-> 1, course_id |-> 1, slug |-> "introduction-to-java",
      order_index |-> 1, content |-> "v0"]}

\* The state after construction, but for the users table.
\* Before initDatabase is called.
notStarted ==
    [caller |-> "none", pc |-> "idle", retries |-> 0, i |-> 0,
     attempts |-> 0, lastOk |-> FALSE, outcome |-> "none", stmt |-> 0,
     schemaFailed |-> FALSE, promise |-> "none"]

InitRest ==
    /\ user_sessions = {}
    /\ sessionSeq = 0
    /\ user_progress = {}
    /\ upSeq = 0
    /\ lesson_progress = {}
    /\ lpSeq = 0
    /\ daily_activity = {}
    /\ courses = SeedCourses
    /\ courseSeq = 2
    /\ lessons = SeedLessons
    /\ lessonSeq = 1
    /\ cache = << >>
    /\ \/ redisClient = "client" /\ redisConnected = TRUE
       \/ redisClient = Null /\ redisConnected = FALSE
    /\ redisFailing = FALSE
    /\ tzEast \in BOOLEAN
    /\ pending = << >>
    /\ sockets = {}
    /\ userSocketMap = << >>
    /\ activeUsers = << >>
    /\ boot = notStarted
    /\ today = 1
    /\ now = 0
    /\ calls = << >>
    /\ tempDir = {}
    /\ inflight = << >>
    /\ lastPut = NoPut
    /\ answered = NoAnswer
    /\ awarded = [k \in UserIds \X LessonIds |-> 0]
    /\ resp = NoResponse
    /\ reqUser = NoUser
    /\ nreq = 0

Init ==
    /\ users = {}
    /\ userSeq = 0
    /\ InitRest

NextAuth ==
    \/ \E un \in Usernames \cup {Undefined}, em \in Emails \cup {Undefined},
          pw \in Passwords \cup {Undefined} : Register(un, em, pw)
    \/ \E un \in Usernames \cup {Undefined}, pw \in Passwords \cup {Undefined} :
          Login(un, pw)
    \/ \E t \in Tokens : Logout(t)
    \/ \E t \in Tokens, un \in Usernames \cup {Undefined} : PutProfile(t, un)

SpecAuth == Init /\ [][NextAuth]_vars

NextProgress ==
    \/ \E un \in Usernames, em \in Emails : Register(un, em, "pw1")
    \/ \E t \in Tokens, topic \in Topics \cup {Undefined},
          pct \in Percentages, pts \in PointsEarned :
          PostProgressUpdate(t, topic, pct, pts)
    \/ \E t \in Tokens, l \in LessonIds, pct \in Percentages,
          c \in CompletedFlags : PostLessonProgress(t, l, pct, c)
    \/ \E type \in LeaderboardTypes, limit \in Limits :
          GetLeaderboard(type, limit)
    \/ NextDay

SpecProgress == Init /\ [][NextProgress]_vars

NextCourses ==
    \/ Register("alice", "alice@x.org", "pw1")
    \/ \E t \in {NoToken, 1} : GetCoursesQuery(t)
    \/ \E i \in 1 .. MaxCourseReq : GetCoursesReply(i)
    \/ \E t \in {NoToken, 1}, id \in CourseIds,
          name \in CourseNames \cup {Undefined},
          description \in Descriptions :
          PutCourse(t, id, name, Undefined, description)
    \/ RedisError
    \/ RedisConnect
    \/ \E key \in {coursesKey} : CacheExpire(key)

SpecCourses == Init /\ [][NextCourses]_vars

NextCatalogue ==
    \/ \E un \in Usernames, em \in Emails : Register(un, em, "pw1")
    \/ \E t \in Tokens, name \in CourseNames \cup {Undefined} :
          PostCourse(t, name, Undefined, undefined)
    \/ \E t \in Tokens, id \in CourseIds : DeleteCourse(t, id)
    \/ \E t \in Tokens, id \in CourseIds,
          title \in LessonTitles \cup {Undefined} : PostLesson(t, id, title)
    \/ \E t \in Tokens, l \in LessonIds : DeleteLesson(t, l)
    \/ \E t \in UserIds, l \in LessonIds, pct \in Percentages :
          PostLessonProgress(t, l, pct, undefined)

SpecCatalogue == Init /\ [][NextCatalogue]_vars

NextExec ==
    \/ \E language \in Languages, program \in Programs, id \in RandomIds :
          ExecuteCode(language, program, id)
    \/ ExecuteCode("ruby", Hello, "a")
    \/ \E program \in {Hello, Loop} : ExecuteCommand(program)
    \/ \E i \in 1 .. MaxCalls : ChildExit(i)
    \/ \E i \in 1 .. MaxCalls : Timeout(i)
    \/ \E i \in 1 .. MaxCalls : Cleanup(i)
    \/ Tick

NextCache ==
    \/ Register("alice", "alice@x.org", "pw1")
    \/ Login("alice", "pw1")
    \/ \E t \in {BadToken, 1}, username \in {Undefined, "bob"} :
          PutProfile(t, username)
    \/ \E type \in {"all", "points"} : GetLeaderboard(type, 100)
    \/ RedisError
    \/ RedisConnect
    \/ RedisCommandsFail
    \/ RedisCommandsRecover

SpecCache == Init /\ [][NextCache]_vars

NextGate ==
    \/ \E un \in Usernames, em \in Emails : Register(un, em, "pw1")
    \/ \E t \in Tokens : Logout(t)
    \/ \E t \in Tokens : PutProfile(t, "bob")
    \/ \E t \in Tokens : PostCourse(t, "Go Lang", Undefined, undefined)
    \/ \E t \in Tokens, id \in CourseIds : DeleteCourse(t, id)
    \/ GetLeaderboard("all", 100)

SpecGate == Init /\ [][NextGate]_vars

NextConcurrent ==
    \/ Register("alice", "alice@x.org", "pw1")
    \/ \E t \in {NoToken, 1}, topic \in Topics \cup {Undefined},
          pct \in {<<50>>, <<100>>} : UpdateBegin(t, topic, pct, undefined)
    \/ \E i \in 1 .. MaxPending : UpdateWrite(i)
    \/ \E i \in 1 .. MaxPending : UpdateCredit(i)
    \/ \E i \in 1 .. MaxPending : StreakSelect(i)
    \/ \E i \in 1 .. MaxPending : StreakWrite(i)
    \/ \E i \in 1 .. MaxPending : DailySelect(i)
    \/ \E i \in 1 .. MaxPending : DailyWrite(i)

SpecConcurrent == Init /\ [][NextConcurrent]_vars

\* alice and bob have registered.
RegisteredUsers ==
    {NewUser(1, "alice", "alice@x.org", bcryptHash("pw1")),
     NewUser(2, "bob", "bob@x.org", bcryptHash("pw1"))}

InitSessions ==
    /\ users = RegisteredUsers
    /\ userSeq = 2
    /\ InitRest

NextSessions ==
    \/ \E un \in Usernames \cup {Undefined}, pw \in Passwords : Login(un, pw)
    \/ \E t \in Tokens : Logout(t)

SpecSessions == InitSessions /\ [][NextSessions]_vars

NextActive ==
    \/ \E socket \in Sockets : SocketConnect(socket)
    \/ \E socket \in Sockets, userId \in UserIds : UserActive(socket, userId)
    \/ \E socket \in Sockets : SocketDisconnect(socket)
    \/ ActiveUsersExpire
    \/ \E userId \in UserIds : CacheExpire(activeUserKey(userId))
    \/ RedisCommandsFail
    \/ RedisCommandsRecover

SpecActive == Init /\ [][NextActive]_vars

NextBoot ==
    \/ InitDatabase
    \/ \E retries \in RetriesValues : TestConnection(retries)
    \/ \E ok \in BOOLEAN : Attempt(ok)
    \/ LoopEnd
    \/ \E ok \in BOOLEAN : SchemaStatement(ok)

SpecBoot == Init /\ [][NextBoot]_vars

NextLessons ==
    \/ Register("alice", "alice@x.org", "pw1")
    \/ PostLessonProgress(1, 1, <<100>>, undefined)
    \/ \E t \in {NoToken, 1} : GetCoursesQuery(t)
    \/ \E i \in 1 .. MaxCourseReq : GetCoursesReply(i)
    \/ \E t \in {NoToken, 1}, slug \in CourseSlugs : GetCourse(t, slug)
    \/ \E t \in {NoToken, 1}, l \in LessonIds, content \in Contents :
          PutLesson(t, l, content)
    \/ \E l \in LessonIds, generated \in BOOLEAN :
          GenerateContent(1, l, generated)
    \/ \E id \in CourseIds : PostLesson(1, id, "Intro")
    \/ \E l \in LessonIds : DeleteLesson(1, l)

SpecLessons == Init /\ [][NextLessons]_vars

NextCourseWrites ==
    \/ Register("alice", "alice@x.org", "pw1")
    \/ \E t \in {NoToken, 1} : GetCoursesQuery(t)
    \/ \E i \in 1 .. MaxCourseReq : GetCoursesReply(i)
    \/ \E id \in CourseIds, name \in CourseNames :
          PutCourse(1, id, name, Undefined, undefined)
    \/ PostCourse(1, "Go Lang", Undefined, undefined)
    \/ \E id \in CourseIds : DeleteCourse(1, id)

SpecCourseWrites == Init /\ [][NextCourseWrites]_vars

NextCommand ==
    \/ Register("alice", "alice@x.org", "pw1")
    \/ \E t \in Tokens, command \in CommandLines,
          language \in CommandLanguages, program \in {Hello, Loop} :
          PostCommand(t, command, language, program)
    \/ \E i \in 1 .. MaxCalls : ChildExit(i)
    \/ \E i \in 1 .. MaxCalls : Timeout(i)
    \/ Tick

\* The code runner uses neither Redis nor the time zone: one initial state.
InitExec == Init /\ redisConnected /\ ~ tzEast

SpecExec == InitExec /\ [][NextExec]_vars

NextCode ==
    \/ Register("alice", "alice@x.org", "pw1")
    \/ \E t \in {NoToken, 1}, code \in Codes, language \in CodeLanguages,
          program \in {Hello, Loop}, id \in RandomIds :
          PostCode(t, code, language, program, id)
    \/ \E i \in 1 .. MaxCalls : ChildExit(i)
    \/ \E i \in 1 .. MaxCalls : Timeout(i)
    \/ \E i \in 1 .. MaxCalls : Cleanup(i)
    \/ Tick

SpecCode == InitExec /\ [][NextCode]_vars

NextUnique ==
    \/ \E un \in Usernames, em \in Emails : RegisterCheck(un, em, "pw1")
    \/ \E i \in 1 .. MaxReq : RegisterInsert(i)
    \/ \E t \in UserIds, un \in Usernames : ProfileCheck(t, un)
    \/ \E i \in 1 .. MaxReq : ProfileUpdate(i)

SpecUnique == Init /\ [][NextUnique]_vars

NextBalances ==
    \/ Register("alice", "alice@x.org", "pw1")
    \/ \E pct \in {<<50>>, <<100>>}, pts \in PointsEarned :
          PostProgressUpdate(1, "arrays", pct, pts)
    \/ \E pct \in {<<50>>, <<100>>} :
          PostLessonProgress(1, 1, pct, undefined)
    \/ NextDay

SpecBalances == Init /\ [][NextBalances]_vars

\* alice registered on day 1 and sent one progress event that day, for half
\* of topic 'arrays'; it is day 2, the process runs in UTC and Redis is
\* connected.
InitStreaks ==
    /\ users = {[NewUser(1, "alice", "alice@x.org", bcryptHash("pw1"))
                   EXCEPT !.current_streak = 1, !.longest_streak = 1,
                          !.last_activity_date = 1]}
    /\ userSeq = 1
    /\ user_sessions = {}
    /\ sessionSeq = 0
    /\ user_progress = {[id |-> 1, user_id |-> 1, topic |-> "arrays",
                         progress_percentage |-> 50, completed |-> FALSE,
                         points_earned |-> 0]}
    /\ upSeq = 1
    /\ lesson_progress = {}
    /\ lpSeq = 0
    /\ daily_activity = {[user_id |-> 1, activity_date |-> 1,
                          points_earned |-> 0, topics_completed |-> 0]}
    /\ courses = SeedCourses
    /\ courseSeq = 2
    /\ lessons = SeedLessons
    /\ lessonSeq = 1
    /\ cache = << >>
    /\ redisClient = "client"
    /\ redisConnected = TRUE
    /\ redisFailing = FALSE
    /\ tzEast = FALSE
    /\ pending = << >>
    /\ sockets = {}
    /\ userSocketMap = << >>
    /\ activeUsers = << >>
    /\ boot = notStarted
    /\ today = 2
    /\ now = 0
    /\ calls = << >>
    /\ tempDir = {}
    /\ inflight = << >>
    /\ lastPut = NoPut
    /\ answered = NoAnswer
    /\ awarded = [k \in UserIds \X LessonIds |-> 0]
    /\ resp = NoResponse
    /\ reqUser = NoUser
    /\ nreq = 0

NextStreaks ==
    \/ \E pct \in {<<50>>, <<100>>} : UpdateBegin(1, "arrays", pct, undefined)
    \/ \E i \in 1 .. MaxPending : UpdateWrite(i)
    \/ \E i \in 1 .. MaxPending : UpdateCredit(i)
    \/ \E i \in 1 .. MaxPending : StreakSelect(i)
    \/ \E i \in 1 .. MaxPending : StreakWrite(i)
    \/ \E i \in 1 .. MaxPending : DailySelect(i)
    \/ \E i \in 1 .. MaxPending : DailyWrite(i)
    \/ NextDay

SpecStreaks == InitStreaks /\ [][NextStreaks]_vars

SpecCommand == InitExec /\ [][NextCommand]_vars

----------------------------------------------------------------------------
(* Claims about the progress handlers and the leaderboard (SpecProgress). *)

RECURSIVE SumPointsEarned(_)
SumPointsEarned(rows) ==
    IF rows = {} THEN 0
    ELSE LET r == CHOOSE x \in rows : TRUE
         IN  r.points_earned + SumPointsEarned(rows \ {r})

ProgressPoints(userId) ==
    SumPointsEarned({r \in user_progress : r.user_id = userId})
    + SumPointsEarned({r \in lesson_progress : r.user_id = userId})

\* C1: after any sequence of completed progress requests, every user's
\* total_points and currency each equal the sum of points_earned over that
\* user's user_progress and lesson_progress rows.
C1_PointsEqualProgressSum ==
    \A u \in users :
        /\ u.total_points = ProgressPoints(u.id)
        /\ u.currency = ProgressPoints(u.id)

\* C2: however many requests of one user for one lesson complete it, the
\* lesson handler credits that user the 10 completion points at most once.
C2_CompletionPointsOnce ==
    \A k \in DOMAIN awarded : awarded[k] <= 10

\* What C3 says updateStreak does to the row of user userId on day today.
StreakStep(userId) ==
    LET old == RowOf(users, userId)
        new == RowOf(users', userId)
        last == old.last_activity_date
    IN  /\ (last # NullDate /\ last = today - 1) =>
               /\ new.current_streak = old.current_streak + 1
               /\ new.last_activity_date = today
        /\ (last = NullDate \/ last < today - 1) =>
               /\ new.current_streak = 1
               /\ new.last_activity_date = today
        /\ (last # NullDate /\ last = today) =>
               /\ new.current_streak = old.current_streak
               /\ new.longest_streak = old.longest_streak
               /\ new.last_activity_date = old.last_activity_date

\* C3: a progress event processed on day D increases current_streak by
\* exactly 1 if last_activity_date is D-1, sets it to 1 if last_activity_date
\* is null or earlier than D-1, and leaves current_streak, longest_streak and
\* last_activity_date unchanged if last_activity_date is D; in the first two
\* cases last_activity_date becomes D.
C3_StreakRule ==
    [][(/\ nreq' = nreq + 1
        /\ resp'.op \in {"progress/update", "lessons/progress"}
        /\ resp'.status = 200)
       => StreakStep(reqUser')]_vars

\* C6: a leaderboard of type 'all' answered from the database lists the
\* users by total_points + current_streak*10 in non-increasing order, users
\* of equal score in insertion (id) order, and the i-th entry has rank i.
C6_LeaderboardAllOrder ==
    (resp.op = "leaderboard" /\ resp.body = "rows" /\ resp.data.type = "all")
    => LET lb == resp.data.leaderboard IN
       /\ \A i \in 1 .. Len(lb) : lb[i].rank = i
       /\ \A i, j \in 1 .. Len(lb) :
            i < j => /\ lb[i].score >= lb[j].score
                     /\ lb[i].score = lb[j].score => lb[i].id < lb[j].id

----------------------------------------------------------------------------
(* Claims about registration (SpecAuth). *)

\* The register request names the email or the username of a registered user.
Duplicates(un, em) == \E u \in users : u.email = em \/ u.username = un

\* C5 as stated: every register request whose email or username equals a
\* registered user's is answered 'User already exists' and adds no users row.
C5_DuplicateRegisterRejected ==
    [][\A un \in Usernames \cup {Undefined}, em \in Emails \cup {Undefined},
          pw \in Passwords \cup {Undefined} :
          (Register(un, em, pw) /\ Duplicates(un, em))
          => (resp'.body = "User already exists" /\ users' = users)]_vars

\* C5 amended: a register request whose email or username equals a
\* registered user's is answered 400 and adds no users row; the error is
\* 'User already exists' when the request carries all three fields and
\* 'All fields are required' when one is missing.
C5_DuplicateRegisterNoRow ==
    [][\A un \in Usernames \cup {Undefined}, em \in Emails \cup {Undefined},
          pw \in Passwords \cup {Undefined} :
          (Register(un, em, pw) /\ Duplicates(un, em))
          => /\ users' = users
             /\ resp'.status = 400
             /\ resp'.body =
                  IF un = Undefined \/ em = Undefined \/ pw = Undefined
                  THEN "All fields are required"
                  ELSE "User already exists"]_vars

\* C5's case: a register request was answered 'User already exists' while a
\* user was registered.
C5_Witness ==
    /\ resp.op = "register"
    /\ resp.body = "User already exists"
    /\ users # {}

----------------------------------------------------------------------------
(* Claims about the course list and its cache (SpecCourses). *)

\* The columns of a row of the course list that PUT writes.
courseColumns(row) ==
    [id |-> row.id, name |-> row.name, slug |-> row.slug,
     description |-> row.description]

\* C4: a GET /api/courses that started after the last successful PUT of a
\* course had completed returns a list in which that course has the updated
\* data.
C4_GetAfterPutIsFresh ==
    (lastPut.n > 0 /\ answered.started = lastPut.n)
    => \E i \in DOMAIN answered.courses :
          courseColumns(answered.courses[i]) = lastPut.course

----------------------------------------------------------------------------
(* Claims about the catalogue's foreign keys (SpecCatalogue). *)

\* Each lesson's course_id names a course, each lesson_progress row's
\* lesson_id names a lesson.
ReferencesHold ==
    /\ \A l \in lessons : \E c \in courses : c.id = l.course_id
    /\ \A lp \in lesson_progress : \E l \in lessons : l.id = lp.lesson_id

\* C7: after a successful DELETE /api/admin/courses/:courseId no lesson row
\* has that course_id and no lesson_progress row refers to a removed lesson;
\* in every reachable state each lesson's course_id refers to an existing
\* course.
C7_DeleteCourseCascades ==
    /\ [] ReferencesHold
    /\ [][\A t \in Tokens, id \in CourseIds :
            (DeleteCourse(t, id) /\ resp'.status = 200)
            => /\ ~ \E c \in courses' : c.id = id
               /\ ~ \E l \in lessons' : l.course_id = id
               /\ \A lp \in lesson_progress' :
                     \E l \in lessons' : l.id = lp.lesson_id]_vars

\* C7's case: alice registered, completed lesson 1 of course 1, and the
\* course was then deleted with its lesson and her progress row.
C7_Witness ==
    /\ nreq = 3
    /\ resp.op = "admin/courses/delete"
    /\ resp.status = 200
    /\ awarded[<<1, 1>>] = 10
    /\ ~ \E c \in courses : c.id = 1
    /\ lessons = {}
    /\ lesson_progress = {}

----------------------------------------------------------------------------
(* Claims about the code runner (SpecExec). *)

\* The payload of a timeout.
timeoutResult(call) == resolved(call, "SIGTERM", 0, "", "")

\* C8: a call whose child was still running at its timeout (10 s for code,
\* 5 s for commands) and was sent SIGTERM has resolved with success false
\* and the timeout error; no call rejects on a timeout; a call whose child
\* exited with code 0 before the timeout has resolved with success true and
\* the child's stdout as output.
C8_TimeoutResolves ==
    \A i \in DOMAIN calls :
        /\ calls[i].signalled =>
               /\ calls[i].state = "resolved"
               /\ calls[i].result = timeoutResult(calls[i])
        /\ (calls[i].state = "resolved" /\ ~ calls[i].signalled
               /\ calls[i].program.code = 0) =>
               /\ calls[i].result.success
               /\ calls[i].result.output = calls[i].program.stdout

\* The call has a temp file in use: its child runs or its cleanup command
\* has not finished.
active(call) ==
    /\ call.kind = "code"
    /\ call.state # "rejected"
    /\ call.state = "running" \/ call.cleanup = "pending"

\* Every call has settled and every cleanup command finished.
AllFinished ==
    \A i \in DOMAIN calls :
        calls[i].state \in {"resolved", "rejected"}
        /\ calls[i].cleanup # "pending"

C10_PathsDisjoint ==
    \A i, j \in DOMAIN calls :
        (i < j /\ active(calls[i]) /\ active(calls[j]))
        => filePath(calls[i]) # filePath(calls[j])

\* router.post('/code'): the answer to a request whose executeCode call has
\* settled: res.json(result) when the promise resolved, 500 from the catch
\* when it rejected.
postCode(call) ==
    IF call.state = "rejected"
    THEN [status |-> 500, body |-> [success |-> FALSE, output |-> "",
                                    error |-> "Failed to execute code"]]
    ELSE [status |-> 200, body |-> call.result]

\* The run of the call failed: unsupported language, timeout, or a child
\* that exited with a nonzero code (compile error, runtime error).
failed(call) ==
    \/ call.state = "rejected"
    \/ call.state = "resolved" /\ (call.signalled \/ call.program.code # 0)

\* C11: every failure path of executeCode (unsupported language, compile or
\* runtime error, nonzero exit, timeout) resolves the promise with a payload
\* of success false and an error; the promise never rejects, and the route
\* answers 500 for no call whose child was spawned.
C11_FailuresResolve ==
    \A i \in DOMAIN calls :
        calls[i].kind = "code" =>
            /\ calls[i].state # "rejected"
            /\ failed(calls[i]) =>
                  /\ calls[i].result.success = FALSE
                  /\ calls[i].result.error # ""
                  /\ calls[i].result # NoResult
                  /\ postCode(calls[i]).status = 200

----------------------------------------------------------------------------
(* Claims about the command endpoint (SpecCommand). *)

\* C12: an authenticated POST /api/execute/command with a command spawns a
\* process only if the first token of the command is in the safe list or in
\* the tool list of the request's language; for every other command no
\* process is spawned and the answer has success false and says the command
\* is not allowed.
C12_OnlyListedCommandsSpawn ==
    [][\A t \in Tokens, command \in CommandLines,
          language \in CommandLanguages, program \in {Hello, Loop} :
          (/\ PostCommand(t, command, language, program)
           /\ authenticate(t).ok
           /\ command # NoCommand
           /\ baseCommand(command) \notin allowedCommands(language))
          => /\ calls' = calls
             /\ resp'.body = "Command is not allowed for security reasons"
             /\ resp'.data.success = FALSE]_vars

----------------------------------------------------------------------------
(* Claims about the cache helpers (SpecCache). *)

\* There is no client, the client is not connected, or its commands fail.
Unavailable == redisClient = Null \/ ~ redisConnected \/ redisFailing

\* The keys and patterns the handlers of SpecCache use.
CacheKeys ==
    {<<"leaderboard", type, "100">> : type \in {"all", "points"}}
    \cup {userKey(id, "profile") : id \in UserIds}

\* C13: in every state of the Redis client in which the cache cannot be
\* used (no client, not connected, commands failing) cacheGet yields null
\* and cacheSet, cacheDelete and cacheDeletePattern leave the keyspace as it
\* is; a leaderboard GET is then answered 200 with the rows of the database
\* as on a miss, and the profile and login handlers answer as they do with
\* the cache at hand, never 500.
C13_CacheIsBestEffort ==
    /\ [](Unavailable =>
            \A key \in CacheKeys \cup DOMAIN cache :
                /\ cacheGet(cache, key) = [hit |-> FALSE]
                /\ cacheSet(cache, key, "v") = cache
                /\ cacheDelete(cache, key) = cache
                /\ cacheDeletePattern(cache, <<key[1], "*">>) = cache)
    /\ [][Unavailable =>
            /\ \A type \in {"all", "points"} :
                  GetLeaderboard(type, 100) =>
                     /\ resp'.status = 200
                     /\ resp'.body = "rows"
                     /\ \E rows \in queryResults(type, 100) :
                           resp'.data.leaderboard =
                              [i \in 1 .. Len(rows) |->
                                  entry(type, rows[i], i)]
                     /\ cache' = cache
            /\ \A t \in {BadToken, 1}, username \in {Undefined, "bob"} :
                  PutProfile(t, username) =>
                     /\ resp'.status \in {200, 400, 401}
                     /\ cache' = cache
            /\ Login("alice", "pw1") =>
                     /\ resp'.status \in {200, 401}
                     /\ cache' = cache]_vars

\* C13's case: the leaderboard of the database was sent while the keyspace
\* held a leaderboard entry and the client, connected, had its commands
\* fail.
C13_Witness ==
    /\ redisFailing
    /\ redisClient # Null
    /\ redisConnected
    /\ <<"leaderboard", "all", "100">> \in DOMAIN cache
    /\ resp.op = "leaderboard"
    /\ resp.body = "rows"
    /\ nreq = 3

----------------------------------------------------------------------------
(* Claims about the authentication middleware (SpecGate). *)

\* The bearer token verifies and names the id of a users row.
Verified(token) ==
    /\ token \notin {NoToken, BadToken}
    /\ \E u \in users : u.id = token

\* The users row of the token has is_admin = true or the email ADMIN_EMAIL.
Admin(token) ==
    \E u \in users :
        u.id = token /\ (u.is_admin = TRUE \/ u.email = ADMIN_EMAIL)

\* The request was answered with this status and changed no row and no
\* cache entry.
Rejected(status) ==
    /\ resp'.status = status
    /\ UNCHANGED <<authVars, progressVars, catalogueVars, cache>>

\* The handler behind authenticate ran, for the user of the token.
Ran(token) ==
    /\ resp'.status \notin {401, 403}
    /\ reqUser' = token

\* C14: a handler behind authenticate (logout, profile) runs only for a
\* request whose token verifies and names a users row, every other request
\* is answered 401; a handler of the admin router (courses) runs only if
\* that user also has is_admin or the email ADMIN_EMAIL, else the answer is
\* 403; a request answered 401 or 403 changes no row and no cache entry.
C14_GateKeepsHandlers ==
    [][\A t \in Tokens :
          /\ (Logout(t) \/ PutProfile(t, "bob")) =>
                IF Verified(t) THEN Ran(t) ELSE Rejected(401)
          /\ (\/ PostCourse(t, "Go Lang", Undefined, undefined)
              \/ \E id \in CourseIds : DeleteCourse(t, id)) =>
                IF ~ Verified(t) THEN Rejected(401)
                ELSE IF ~ Admin(t) THEN Rejected(403)
                ELSE Ran(t)]_vars

\* C14's case: bob, registered and not an admin, asked to delete course 1
\* while the cache held the leaderboard, and was answered 403 with the
\* course and the cache entry in place.
C14_Witness ==
    /\ resp.op = "admin/courses/delete"
    /\ resp.status = 403
    /\ \E u \in users : u.username = "bob" /\ u.email # ADMIN_EMAIL
    /\ \E c \in courses : c.id = 1
    /\ cache # << >>

----------------------------------------------------------------------------
(* Claims about progress requests handled concurrently (SpecConcurrent). *)

\* C15: in every reachable state, also after two submissions for the same
\* key were handled concurrently, there is at most one user_progress row per
\* (user, topic) and at most one lesson_progress row per (user, lesson).
C15_OneRowPerKey ==
    /\ \A r1, r2 \in user_progress :
          (r1.user_id = r2.user_id /\ r1.topic = r2.topic) => r1 = r2
    /\ \A r1, r2 \in lesson_progress :
          (r1.user_id = r2.user_id /\ r1.lesson_id = r2.lesson_id) => r1 = r2

\* The requests among the first n of pending that were answered 200 for the
\* user on the day: the sum of the points_earned they returned, and the
\* number of them that completed the topic.
RECURSIVE answeredPoints(_, _, _)
answeredPoints(userId, day, n) ==
    IF n = 0 THEN 0
    ELSE answeredPoints(userId, day, n - 1)
         + (IF /\ pending[n].answer = 200
               /\ pending[n].userId = userId
               /\ pending[n].day = day
            THEN pending[n].points ELSE 0)

RECURSIVE answeredCompleted(_, _, _)
answeredCompleted(userId, day, n) ==
    IF n = 0 THEN 0
    ELSE answeredCompleted(userId, day, n - 1)
         + (IF /\ pending[n].answer = 200
               /\ pending[n].userId = userId
               /\ pending[n].day = day
               /\ pending[n].isCompleted
            THEN 1 ELSE 0)

\* C16: when no request is being handled, each user with a progress request
\* answered 200 on a date has exactly one daily_activity row for that date,
\* whose points_earned is the sum of the points_earned those requests
\* returned and whose topics_completed is the number of them that completed
\* the topic.
C16_DailyAggregateComplete ==
    (\A i \in DOMAIN pending : pending[i].pc = "done") =>
        \A i \in DOMAIN pending :
            pending[i].answer = 200 =>
                \E r \in daily_activity :
                    /\ r.user_id = pending[i].userId
                    /\ r.activity_date = pending[i].day
                    /\ r.points_earned =
                         answeredPoints(pending[i].userId, pending[i].day,
                                        Len(pending))
                    /\ r.topics_completed =
                         answeredCompleted(pending[i].userId, pending[i].day,
                                           Len(pending))
                    /\ \A r2 \in daily_activity :
                          (r2.user_id = r.user_id
                           /\ r2.activity_date = r.activity_date) => r2 = r

\* C17: every user starts the first day with current_streak 0; whatever the
\* number and the interleaving of the user's progress events handled on
\* that day, current_streak is at most 1, and once an event of the user was
\* answered last_activity_date is that day.
C17_StreakOncePerDay ==
    \A u \in users :
        /\ u.current_streak <= 1
        /\ (\E i \in DOMAIN pending :
               pending[i].answer = 200 /\ pending[i].userId = u.id)
           => u.last_activity_date = today

\* C18, for the leaderboard endpoint: the body sent on a cache hit is the
\* body that was sent on the miss that stored the entry.  Entries are stored
\* by the handler's misses only, so this is: a hit sends the stored value,
\* and a miss that stores a value sends that same value as its body.
C18_HitSendsWhatMissSent ==
    [][\A type \in {"all", "points"} :
          GetLeaderboard(type, 100) =>
             LET cacheKey == <<"leaderboard", type, "100">> IN
             IF cacheGet(cache, cacheKey).hit
             THEN resp'.data = JSONparse(cache[cacheKey])
             ELSE (~ Unavailable) =>
                     /\ cacheKey \in DOMAIN cache'
                     /\ resp'.data = JSONparse(cache'[cacheKey])]_vars

----------------------------------------------------------------------------
(* Further claims about the progress handlers (SpecProgress). *)

\* total_points and currency of every users row, by id.
Balances(us) ==
    {<<u.id, u.total_points, u.currency>> : u \in us}

\* C19: a progress request that does not complete the topic or lesson
\* (progress_percentage other than 100, no completed flag) leaves every
\* user's total_points and currency as they were, for POST
\* /api/progress/update and POST /api/lessons/:lessonId/progress and for
\* every request body.
C19_NoPointsWithoutCompletion ==
    [][/\ \A t \in Tokens, topic \in Topics \cup {Undefined},
             pct \in Percentages \ {<<100>>}, pts \in PointsEarned :
             PostProgressUpdate(t, topic, pct, pts)
                => Balances(users') = Balances(users)
       /\ \A t \in Tokens, l \in LessonIds, pct \in Percentages \ {<<100>>} :
             PostLessonProgress(t, l, pct, undefined)
                => Balances(users') = Balances(users)]_vars

----------------------------------------------------------------------------
(* Claims about sessions (SpecSessions). *)

----------------------------------------------------------------------------
(* Claims about the active-users set (SpecActive). *)

\* The user ids the set holds.
tracked == {activeUsers[i] : i \in DOMAIN activeUsers}

\* C21: the active-users set holds each user id at most once, and
\* getActiveUsersCount is the number of distinct user ids in the set, after
\* any sequence of user-active events, repeated ones and ones of several
\* sockets of one user included (the count is read while Redis answers).
C21_ActiveUsersCountedOnce ==
    /\ \A i, j \in DOMAIN activeUsers :
          activeUsers[i] = activeUsers[j] => i = j
    /\ (redisClient # Null /\ redisConnected /\ ~ redisFailing)
          => getActiveUsersCount = Cardinality(tracked)

\* C21's case: two connected sockets have both emitted user-active for user
\* 1, and the set holds "1" and the count is 1.
C21_Witness ==
    /\ sockets = Sockets
    /\ DOMAIN userSocketMap = Sockets
    /\ \A s \in Sockets : userSocketMap[s] = 1
    /\ tracked = {"1"}
    /\ getActiveUsersCount = 1

\* C27: while another connected socket that emitted user-active for user U
\* is mapped to U, the disconnect of one of U's sockets leaves U in the
\* active-users set.
C27_StaysWhileAnotherSocket ==
    [][\A s \in Sockets :
          (/\ s \in sockets
           /\ s \notin sockets'
           /\ s \in DOMAIN userSocketMap
           /\ ToString(userSocketMap[s]) \in tracked
           /\ \E s2 \in sockets \ {s} :
                 /\ s2 \in DOMAIN userSocketMap
                 /\ userSocketMap[s2] = userSocketMap[s])
          => ToString(userSocketMap[s]) \in tracked']_vars

----------------------------------------------------------------------------
(* Claims about the database at start-up (SpecBoot). *)

\* C22: testConnection makes at most retries attempts, returns true at the
\* first attempt that succeeds and throws only after the last attempt has
\* failed; the promise initDatabase returns is never rejected, whether
\* testConnection or a schema statement threw.
C22_BootNeverRejects ==
    /\ boot.attempts <= boot.retries
    /\ boot.outcome = "true" => (boot.lastOk /\ boot.attempts = boot.i + 1)
    /\ (boot.attempts > 0 /\ boot.lastOk) => boot.outcome = "true"
    /\ boot.outcome = "thrown"
          => (~ boot.lastOk /\ boot.attempts = boot.retries)
    /\ boot.promise # "rejected"
    /\ (boot.caller = "initDatabase" /\ boot.pc = "done")
          => boot.promise = "resolved"

\* C22's case: initDatabase has ended after all ten attempts of
\* testConnection failed.
C22_Witness ==
    /\ boot.caller = "initDatabase"
    /\ boot.pc = "done"
    /\ boot.outcome = "thrown"
    /\ boot.attempts = retriesDefault
    /\ boot.promise = "resolved"

----------------------------------------------------------------------------
(* Claims about the course pages and the lesson writes (SpecLessons). *)

\* The id and content of the lessons of a course body.
lessonContents(body) ==
    {[id |-> body.lessons[i].id, content |-> body.lessons[i].content] :
        i \in DOMAIN body.lessons}

\* The id and content of the rows of table lessons of the course.
storedContents(slug) ==
    {[id |-> l.id, content |-> l.content] :
        l \in {x \in lessons : \E c \in courses :
                  c.slug = slug /\ c.id = x.course_id}}

\* C23: a GET /api/courses/:slug started after an admin lesson write
\* (create, update, delete, generate-content) completed returns lessons
\* that reflect the write: the lessons of its body are those of the table.
C23_LessonWritesInvalidate ==
    [][\A t \in {NoToken, 1}, slug \in CourseSlugs :
          (GetCourse(t, slug) /\ resp'.status = 200)
             => lessonContents(resp'.data) = storedContents(slug)]_vars

\* C24: the per-user fields of GET /api/courses and GET /api/courses/:slug
\* describe the requester only, whatever other users requested before: for
\* an anonymous request completed_lessons is 0 for every course, and
\* completed is false and progress_percentage 0 for every lesson.
C24_PerUserFieldsAreRequesters ==
    [][/\ (GetCoursesQuery(NoToken) /\ nreq' = nreq + 1)
             => \A i \in DOMAIN resp'.data :
                   resp'.data[i].completed_lessons = 0
       /\ \A slug \in CourseSlugs :
             (GetCourse(NoToken, slug) /\ resp'.status = 200)
                => \A i \in DOMAIN resp'.data.lessons :
                      /\ ~ resp'.data.lessons[i].completed
                      /\ resp'.data.lessons[i].progress_percentage = 0]_vars

----------------------------------------------------------------------------
(* Claims about the course list under concurrent writes (SpecCourseWrites). *)

\* C25: under any interleaving of GET /api/courses requests with admin
\* course writes, once all of those requests have completed, the cache
\* entry 'courses:all', if present, equals the course list computed from
\* the current database state.
C25_CachedListIsCurrent ==
    (inflight = << >> /\ coursesKey \in DOMAIN cache)
    => \E userId \in {NoUser, 1} :
          JSONparse(cache[coursesKey]) = coursesList(userId)

----------------------------------------------------------------------------
(* Claims about POST /api/execute/code (SpecCode). *)

\* C26 as stated: every POST /api/execute/code request whose body lacks code
\* or lacks language is answered with 400 'Code and language are required',
\* and no temp file is written and no child spawned for it.
C26_MissingFieldsGive400 ==
    [][\A t \in {NoToken, 1}, code \in Codes, language \in CodeLanguages,
          program \in {Hello, Loop}, id \in RandomIds :
          (/\ PostCode(t, code, language, program, id)
           /\ (code = Undefined \/ language = Undefined))
          => /\ resp'.status = 400
             /\ resp'.body = "Code and language are required"
             /\ calls' = calls
             /\ tempDir' = tempDir]_vars

\* C26 amended: a request that passes authenticate and whose body lacks code
\* or lacks language is answered with 400 'Code and language are required';
\* a request that does not pass authenticate is answered with 401; in both
\* cases no temp file is written and no child is spawned for it.
C26_AuthenticatedMissingFieldsGive400 ==
    [][\A t \in {NoToken, 1}, code \in Codes, language \in CodeLanguages,
          program \in {Hello, Loop}, id \in RandomIds :
          (/\ PostCode(t, code, language, program, id)
           /\ (code = Undefined \/ language = Undefined))
          => /\ calls' = calls
             /\ tempDir' = tempDir
             /\ IF t # NoToken /\ \E u \in users : u.id = t
                THEN /\ resp'.status = 400
                     /\ resp'.body = "Code and language are required"
                ELSE resp'.status = 401]_vars

\* C26's case: alice's request was answered 400 'Code and language are
\* required' and the code runner has no call and no file.
C26_Witness ==
    /\ reqUser = 1
    /\ resp = Reply("execute/code", 400, "Code and language are required",
                    << >>)
    /\ calls = << >>
    /\ tempDir = {}

----------------------------------------------------------------------------
(* Claims about the users table under concurrent requests (SpecUnique). *)

\* C28: in every reachable state no two user rows share a username and no
\* two share an email, also when registrations and profile renames that
\* conflict are handled concurrently.
C28_UsernamesAndEmailsUnique ==
    \A u, v \in users :
       u # v => (u.username # v.username /\ u.email # v.email
                 /\ u.id # v.id)

\* C28's case: two requests for one username had both passed their SELECT,
\* the first took effect and the second was answered 500; the table holds
\* the name once.
C28_Witness ==
    /\ pending = << >>
    /\ resp.status = 500
    /\ resp.op \in {"register", "profile"}
    /\ users # {}

----------------------------------------------------------------------------
(* Claims about the balances and the streaks of the users (SpecBalances). *)

\* C29: for every user currency equals total_points in every reachable
\* state, neither value ever decreases, and a progress request with zero or
\* negative points leaves both unchanged.
C29_CurrencyEqualsTotalPoints ==
    /\ [](\A u \in users : u.currency = u.total_points /\ u.currency >= 0)
    /\ [][\A u \in users : \A v \in users' :
             v.id = u.id
             => /\ v.total_points >= u.total_points
                /\ v.currency >= u.currency
                /\ (resp'.op \in {"progress/update", "lessons/progress"}
                    /\ (resp'.status # 200 \/ resp'.data.points_earned <= 0))
                   => (v.total_points = u.total_points
                       /\ v.currency = u.currency)]_vars

\* C29's case: a user who was credited before has sent a request with
\* negative points, which was answered 200 and left the balances equal.
C29_Witness ==
    /\ resp.op = "progress/update"
    /\ resp.status = 200
    /\ resp.data.points_earned < 0
    /\ \E u \in users : u.id = reqUser /\ u.total_points > 0
                        /\ u.currency = u.total_points

\* C30: for every user longest_streak >= current_streak >= 0 in every
\* reachable state, and longest_streak is the maximum value current_streak
\* has ever taken: it never decreases, and it changes only to the value
\* current_streak takes.
C30_LongestIsRunningMaximum ==
    /\ [](\A u \in users : u.longest_streak >= u.current_streak
                            /\ u.current_streak >= 0)
    /\ [][\A u \in users : \A v \in users' :
             v.id = u.id
             => /\ v.longest_streak >= u.longest_streak
                /\ v.longest_streak =
                     Max(u.longest_streak, v.current_streak)]_vars
====
